---- MODULE Spec2Model ----
(***************************************************************************)
(* A model of the cto-orchestrator scheduling and coordination engine:     *)
(*   - the event-delivery circuit breaker (roro_events.py),                *)
(*   - the file-reservation manager of a team (team.py),                   *)
(*   - the ready-ticket computation and the ticket state machine           *)
(*     (orchestrate.py, delegate.py, ticket.py),                           *)
(*   - the team coordinator and its member delegations                     *)
(*     (orchestrate.py run_team_sprint, delegate.py cmd_delegate).         *)
(* Each subsystem has its own specification over the shared variables; a   *)
(* subsystem's actions leave the other subsystems' variables unchanged.    *)
(***************************************************************************)
EXTENDS Integers, Sequences, FiniteSets, TLC

\* ------------------------------------------------------------------ bounds
\* Clock values the breaker model explores (seconds since the first emit).
MaxTime == 33
\* Delivery threads in flight at once.
MaxInflight == 2
\* Cap on the failure counter (the code's counter is unbounded).
MaxFailures == 5

\* --------------------------------------------------------------- constants
\* CircuitBreaker.__init__ defaults.
failure_threshold == 3
cooldown_seconds == 30

VARIABLES
    \* roro_events.py: the process-wide CircuitBreaker instance
    cb_state,            \* "closed" | "open" | "half_open"
    failure_count,       \* self.failure_count
    last_failure_time,   \* <<>> for None, <<t>> for a timestamp
    now,                 \* time.time()
    inflight,            \* number of _send_event threads started and not finished
    cb_last,             \* history: the last breaker operation, the state it found, and
                         \* what the last call of emit gave its caller
    streak,              \* history: failures recorded since the last success or reset
    \* team.py: one team's reservation map
    files_reserved,      \* team["files_reserved"]: role -> set of paths, keys as in the dict
    res_last,            \* history: the last reservation call, its arguments and result
    \* .cto/tickets: the ticket records, and get_actionable_tickets' locals
    tickets,             \* ticket id -> record, one per file
    listed,              \* get_actionable_tickets: tickets = all_tickets(root)
    candidates,          \* get_actionable_tickets: the list it returned
    been_in_progress,    \* history: the tickets that have had status in_progress
    \* orchestrate.py: the running command (cmd_sprint or cmd_review)
    orch,                \* "none" | "sprint" | "review"
    spc,                 \* where the command is
    iteration,           \* cmd_sprint: iteration
    cur,                 \* cmd_sprint: ticket["id"] of the ticket being delegated
    rqueue,              \* the in_review tickets still to be reviewed in this batch
    \* delegate.py: the cmd_delegate subprocess started by run_delegate (no team)
    dpc,                 \* where the subprocess is
    dticket,             \* args.ticket_id
    dreport,             \* history: the status the agent of the last delegation reported
    \* .cto/teams/active: one team record, and run_team_sprint working on it
    team,                \* the team record: status, members' statuses, coordination
    tpc,                 \* where run_team_sprint is
    seq_i,               \* sequential mode: the index into ordered_members
    results,             \* run_team_sprint: results, role -> result status
    \* delegate.py: the cmd_delegate subprocess of each member (--team-id given)
    mpc,                 \* role -> where the member's subprocess is
    mlocal,              \* role -> the team record it loaded and has not saved yet
    mout,                \* role -> what the executor call gave
    \* .cto/messages/<team_id>: one team's message files
    messages,            \* message number -> record, one per file msg-NNN.json
    sent,                \* history: the numbers send_message gave out, in send order
    msg_last,            \* history: the last message call, its arguments and result
    mmsg,                \* role -> process_team_output of the member: pc, messages left, msg_num
    \* delegate.py: the executor's output and what parse_agent_output made of it
    agent_output,        \* output = delegate_to_agent(prompt, model, timeout)
    parsed               \* parsed = parse_agent_output(output)

cbVars == <<cb_state, failure_count, last_failure_time, now, inflight, cb_last, streak>>
resVars == <<files_reserved, res_last>>
readyVars == <<listed, candidates>>
tkVars == <<tickets, been_in_progress>>
orchVars == <<orch, spc, iteration, cur, rqueue>>
delegVars == <<dpc, dticket, dreport>>
coordVars == <<tpc, seq_i, results>>
memberVars == <<mpc, mlocal, mout>>
teamVars == <<team, coordVars, memberVars>>
msgVars == <<messages, sent, msg_last, mmsg>>
parseVars == <<agent_output, parsed>>
vars == <<cbVars, resVars, tkVars, readyVars, orchVars, delegVars, teamVars, msgVars, parseVars>>
\* What each subsystem's actions leave alone.
nonCbVars == <<resVars, tkVars, readyVars, orchVars, delegVars, teamVars, msgVars, parseVars>>
nonResVars == <<cbVars, tkVars, readyVars, orchVars, delegVars, teamVars, msgVars, parseVars>>
nonTkVars == <<cbVars, resVars, readyVars, teamVars, msgVars, parseVars>>
nonTeamVars == <<cbVars, resVars, readyVars, orchVars, delegVars, msgVars, parseVars>>
nonMsgVars == <<cbVars, resVars, tkVars, readyVars, orchVars, delegVars, teamVars, parseVars>>

\* ================================================================ breaker
CLOSED == "closed"
OPEN == "open"
HALF_OPEN == "half_open"

\* A broken can_execute that leaves open only after more than the cooldown.
can_execute_state_strict(st, lft, t) ==
    IF st = OPEN /\ lft # <<>> /\ (t - lft[1]) > cooldown_seconds
    THEN HALF_OPEN
    ELSE st

\* CircuitBreaker.can_execute: the state it leaves.
can_execute_state(st, lft, t) ==
    IF st = OPEN /\ lft # <<>> /\ (t - lft[1]) >= cooldown_seconds
    THEN HALF_OPEN
    ELSE st

\* A broken can_execute that permits a call whenever a failure time is set.
can_execute_no_cooldown(st, lft, t) ==
    IF st = CLOSED THEN TRUE
    ELSE IF st = OPEN THEN lft # <<>> ELSE TRUE

\* CircuitBreaker.can_execute: the value it returns.
can_execute(st, lft, t) ==
    IF st = CLOSED THEN TRUE
    ELSE IF st = OPEN
         THEN lft # <<>> /\ (t - lft[1]) >= cooldown_seconds
         ELSE TRUE

\* A broken record_success that resets the counter and forgets the state.
record_success_keeps_state(st) == st

\* CircuitBreaker.record_success: the state it leaves (the counter becomes 0).
record_success_state(st) == CLOSED

\* A broken record_failure that opens one failure late.
record_failure_late(st, cnt) ==
    IF cnt + 1 > failure_threshold THEN OPEN ELSE st

\* A broken record_failure that opens only a closed breaker.
record_failure_from_closed(st, cnt) ==
    IF st = CLOSED /\ cnt + 1 >= failure_threshold THEN OPEN ELSE st

\* CircuitBreaker.record_failure: the state it leaves, cnt the counter before.
record_failure_state(st, cnt) ==
    IF cnt + 1 >= failure_threshold THEN OPEN ELSE st

CbInit ==
    /\ cb_state = CLOSED
    /\ failure_count = 0
    /\ last_failure_time = <<>>
    /\ now = 1
    /\ inflight = 0
    /\ cb_last = [op |-> "init", from |-> CLOSED, ret |-> ""]
    /\ streak = 0

\* emit(): the breaker rejects the call, nothing is sent.
EmitSkipped ==
    /\ ~can_execute(cb_state, last_failure_time, now)
    /\ cb_last' = [op |-> "emit_skipped", from |-> cb_state, ret |-> "None"]
    /\ UNCHANGED <<cb_state, failure_count, last_failure_time, now, inflight, streak>>
    /\ UNCHANGED nonCbVars

\* emit(): the breaker permits the call, a delivery thread is started.
EmitSent ==
    /\ can_execute(cb_state, last_failure_time, now)
    /\ inflight < MaxInflight
    /\ cb_state' = can_execute_state(cb_state, last_failure_time, now)
    /\ inflight' = inflight + 1
    /\ cb_last' = [op |-> "emit_sent", from |-> cb_state, ret |-> "None"]
    /\ UNCHANGED <<failure_count, last_failure_time, now, streak>>
    /\ UNCHANGED nonCbVars

\* _send_event: the POST answered 200.
SendSucceeds ==
    /\ inflight > 0
    /\ inflight' = inflight - 1
    /\ failure_count' = 0
    /\ cb_state' = record_success_state(cb_state)
    /\ cb_last' = [op |-> "record_success", from |-> cb_state, ret |-> cb_last.ret]
    /\ streak' = 0
    /\ UNCHANGED <<last_failure_time, now>>
    /\ UNCHANGED nonCbVars

\* _send_event, were what the POST raises to reach the caller of emit.
SendFails_raises ==
    /\ inflight > 0
    /\ failure_count < MaxFailures
    /\ inflight' = inflight - 1
    /\ failure_count' = failure_count + 1
    /\ last_failure_time' = <<now>>
    /\ cb_state' = record_failure_state(cb_state, failure_count)
    /\ cb_last' = [op |-> "record_failure", from |-> cb_state, ret |-> "raised"]
    /\ streak' = streak + 1
    /\ UNCHANGED now
    /\ UNCHANGED nonCbVars

\* _send_event: another HTTP status, URLError or any other exception.
SendFails ==
    /\ inflight > 0
    /\ failure_count < MaxFailures
    /\ inflight' = inflight - 1
    /\ failure_count' = failure_count + 1
    /\ last_failure_time' = <<now>>
    /\ cb_state' = record_failure_state(cb_state, failure_count)
    /\ cb_last' = [op |-> "record_failure", from |-> cb_state, ret |-> cb_last.ret]
    /\ streak' = streak + 1
    /\ UNCHANGED now
    /\ UNCHANGED nonCbVars

\* A broken reset that clears the counter and the time and keeps the state.
CbReset_keeps_state ==
    /\ failure_count' = 0
    /\ last_failure_time' = <<>>
    /\ cb_last' = [op |-> "reset", from |-> cb_state, ret |-> cb_last.ret]
    /\ streak' = 0
    /\ UNCHANGED <<cb_state, now, inflight>>
    /\ UNCHANGED nonCbVars

\* reset_circuit_breaker().
CbReset ==
    /\ cb_state' = CLOSED
    /\ failure_count' = 0
    /\ last_failure_time' = <<>>
    /\ cb_last' = [op |-> "reset", from |-> cb_state, ret |-> cb_last.ret]
    /\ streak' = 0
    /\ UNCHANGED <<now, inflight>>
    /\ UNCHANGED nonCbVars

\* Time passes.
Tick ==
    /\ now < MaxTime
    /\ now' = now + 1
    /\ cb_last' = [op |-> "tick", from |-> cb_state, ret |-> cb_last.ret]
    /\ UNCHANGED <<cb_state, failure_count, last_failure_time, inflight, streak>>
    /\ UNCHANGED nonCbVars

CbNext ==
    \/ EmitSkipped
    \/ EmitSent
    \/ SendSucceeds
    \/ SendFails
    \/ CbReset
    \/ Tick

\* ============================================================ reservations
Roles == {"architect-morty", "backend-morty", "frontend-morty"}
Paths == {"/a.go", "/b.go"}

\* The paths a role holds; a role without a key holds none.
Held(reserved, role) ==
    IF role \in DOMAIN reserved THEN reserved[role] ELSE {}

\* reserve_files: the (path, other_role) pairs already taken.
Conflicts(reserved, role, file_paths) ==
    {<<p, o>> \in file_paths \X (DOMAIN reserved) : o # role /\ p \in reserved[o]}

\* A broken reserve_files that commits the free paths of a conflicting call.
reserve_partial(reserved, role, file_paths) ==
    LET taken == {c[1] : c \in Conflicts(reserved, role, file_paths)}
    IN  [r \in (DOMAIN reserved) \cup {role} |->
            IF r = role THEN Held(reserved, role) \cup (file_paths \ taken)
            ELSE reserved[r]]

\* A broken reserve_files that never looks at the other roles.
reserve_unchecked(reserved, role, file_paths) ==
    [r \in (DOMAIN reserved) \cup {role} |->
        IF r = role THEN Held(reserved, role) \cup file_paths ELSE reserved[r]]

\* reserve_files: the map it leaves in the team record.
reserve_files(reserved, role, file_paths) ==
    IF Conflicts(reserved, role, file_paths) # {}
    THEN reserved
    ELSE [r \in (DOMAIN reserved) \cup {role} |->
            IF r = role THEN Held(reserved, role) \cup file_paths ELSE reserved[r]]

\* release_files: the map it leaves in the team record.
release_files(reserved, role) ==
    [r \in (DOMAIN reserved) \ {role} |-> reserved[r]]

ResInit ==
    /\ files_reserved = <<>>
    /\ res_last = [op |-> "none", role |-> "", paths |-> {}, ok |-> TRUE]

Reserve(role, file_paths) ==
    /\ files_reserved' = reserve_files(files_reserved, role, file_paths)
    /\ res_last' = [op |-> "reserve", role |-> role, paths |-> file_paths,
                    ok |-> Conflicts(files_reserved, role, file_paths) = {}]
    /\ UNCHANGED nonResVars

Release(role) ==
    /\ files_reserved' = release_files(files_reserved, role)
    /\ res_last' = [op |-> "release", role |-> role, paths |-> {}, ok |-> TRUE]
    /\ UNCHANGED nonResVars

ResNext ==
    \/ \E role \in Roles, file_paths \in SUBSET Paths : Reserve(role, file_paths)
    \/ \E role \in Roles : Release(role)


\* ================================================================ tickets
\* Ticket ids in file-name order, the order all_tickets enumerates them in.
IdOrder == <<"T1", "T2", "T3">>
Statuses == {"backlog", "todo", "in_progress", "in_review", "testing", "done", "blocked"}
Priorities == {"critical", "high", "medium", "low"}

\* all_tickets: the records of the store, sorted by file name.
all_tickets(store) ==
    LET ids == SelectSeq(IdOrder, LAMBDA i : i \in DOMAIN store)
    IN  [k \in 1..Len(ids) |-> store[ids[k]]]

\* PRIORITY_ORDER.get(priority, 99).
PRIORITY_ORDER(p) ==
    CASE p = "critical" -> 0
      [] p = "high" -> 1
      [] p = "medium" -> 2
      [] p = "low" -> 3
      [] OTHER -> 99

\* A broken sort that puts a ticket before the earlier tickets of its priority.
RECURSIVE sort_ties_reversed(_)
sort_ties_reversed(seq) ==
    IF seq = <<>> THEN <<>>
    ELSE LET n == Len(seq)
             t == seq[n]
             front == sort_ties_reversed(SubSeq(seq, 1, n - 1))
             keep == {k \in 1..Len(front) :
                        PRIORITY_ORDER(front[k].priority) < PRIORITY_ORDER(t.priority)}
             at == IF keep = {} THEN 0 ELSE CHOOSE k \in keep : \A j \in keep : j <= k
         IN  SubSeq(front, 1, at) \o <<t>> \o SubSeq(front, at + 1, Len(front))

\* list.sort(key=...): a stable sort, as an insertion after the last element
\* whose key is not greater.
RECURSIVE sort_by_priority(_)
sort_by_priority(seq) ==
    IF seq = <<>> THEN <<>>
    ELSE LET n == Len(seq)
             t == seq[n]
             front == sort_by_priority(SubSeq(seq, 1, n - 1))
             keep == {k \in 1..Len(front) :
                        PRIORITY_ORDER(front[k].priority) <= PRIORITY_ORDER(t.priority)}
             at == IF keep = {} THEN 0 ELSE CHOOSE k \in keep : \A j \in keep : j <= k
         IN  SubSeq(front, 1, at) \o <<t>> \o SubSeq(front, at + 1, Len(front))

\* A broken done_ids that takes a dependency in progress for a met one.
done_ids_with_in_progress(tks) ==
    {tks[k].id : k \in {j \in 1..Len(tks) :
        tks[j].status \in {"done", "in_review", "testing", "in_progress"}}}

\* A broken done_ids that takes only a done dependency for a met one.
done_ids_done_only(tks) ==
    {tks[k].id : k \in {j \in 1..Len(tks) : tks[j].status = "done"}}

\* get_actionable_tickets: done_ids.
done_ids(tks) ==
    {tks[k].id : k \in {j \in 1..Len(tks) : tks[j].status \in {"done", "in_review", "testing"}}}

\* get_actionable_tickets, were the dependencies not looked at.
get_actionable_tickets_any(tks) ==
    LET ready(t) ==
            /\ t.status \in {"todo", "backlog"}
            /\ t.type # "epic"
    IN  sort_by_priority(SelectSeq(tks, ready))

\* get_actionable_tickets, on the list all_tickets returned.
get_actionable_tickets(tks) ==
    LET ready(t) ==
            /\ t.status \in {"todo", "backlog"}
            /\ t.type # "epic"
            /\ \A d \in t.dependencies : d \in done_ids(tks)
    IN  sort_by_priority(SelectSeq(tks, ready))

NoTeam == [status |-> "none", members |-> <<>>, mode |-> "", lead |-> ""]
NoReport == [kind |-> "none", status |-> "", blocked_on |-> FALSE]

TeamIdle ==
    /\ team = NoTeam
    /\ tpc = "idle"
    /\ seq_i = 0
    /\ results = <<>>
    /\ mpc = <<>>
    /\ mlocal = <<>>
    /\ mout = <<>>

\* No message has been sent to the team.
NoCall == [op |-> "none", role |-> "", unread_only |-> FALSE, ids |-> {}, got |-> <<>>]

MsgInit ==
    /\ messages = <<>>
    /\ sent = <<>>
    /\ msg_last = NoCall
    /\ mmsg = <<>>

\* No executor output, and nothing parsed.
NoOutput == [tagged |-> FALSE, status_word |-> "", description |-> <<>>, text |-> <<>>]
NoParse == [status |-> "", description |-> <<>>]

OrchIdle ==
    /\ MsgInit
    /\ agent_output = NoOutput /\ parsed = NoParse
    /\ orch = "none"
    /\ spc = "off"
    /\ iteration = 0
    /\ cur = ""
    /\ rqueue = <<>>
    /\ dpc = "none"
    /\ dticket = ""
    /\ dreport = ""
    /\ TeamIdle

\* The ticket sets the ready computation is tried on: two tickets, every status,
\* type and priority, dependencies on itself, the other and a ticket that does
\* not exist.
ReadyInputs ==
    [{"T1", "T2"} -> [status : Statuses, type : {"task", "epic"}, priority : Priorities,
                      dependencies : SUBSET {"T1", "T2", "T3"}, parent_ticket : {""},
                      completed_at : {FALSE}, review_notes : {""}]]

WithIds(store) == [i \in DOMAIN store |-> [id |-> i] @@ store[i]]

ReadyInit ==
    /\ tickets \in {WithIds(st) : st \in ReadyInputs}
    /\ listed = <<>>
    /\ candidates = <<>>
    /\ been_in_progress = {}
    /\ OrchIdle

\* One call of get_actionable_tickets.
GetActionable ==
    /\ listed = <<>>
    /\ listed' = all_tickets(tickets)
    /\ candidates' = get_actionable_tickets(all_tickets(tickets))
    /\ UNCHANGED <<tkVars, cbVars, resVars, orchVars, delegVars, teamVars, msgVars, parseVars>>

\* ======================================================= ticket lifecycle
\* Iterations a sprint run is given (--max-iterations).
max_iterations == 3

\* save_ticket of a record whose status was set to s.
SetStatus(store, t, s) == [store EXCEPT ![t].status = s]

\* A status write together with ticket["completed_at"] = now_iso().
SetCompleted(store, t, s) == [store EXCEPT ![t].status = s, ![t].completed_at = TRUE]

\* A write of status blocked together with ticket["review_notes"].
SetBlocked(store, t, notes) == [store EXCEPT ![t].status = "blocked", ![t].review_notes = notes]

\* The history kept beside a status write.
Visited(seen, s, t) == IF s = "in_progress" THEN seen \cup {t} ELSE seen

\* A broken cmd_delegate that leaves the ticket's status alone on assignment.
assign_status_kept(old) == old

\* cmd_delegate: the status written on assignment.
assign_status(old) == "in_progress"

\* The report handling, were only completed and needs_review to pass for review.
report_status_unknown_blocks(agent_status) ==
    IF agent_status \in {"completed", "needs_review"} THEN "in_review" ELSE "blocked"

\* cmd_delegate: the ticket status written for a parsed report status.
report_status(agent_status) ==
    IF agent_status = "completed" THEN "in_review"
    ELSE IF agent_status = "blocked" THEN "blocked"
    ELSE IF agent_status = "needs_review" THEN "in_review"
    ELSE "in_review"

\* The status tokens an agent's report may carry.
ReportStatuses == {"completed", "needs_review", "blocked", "too_complex"}

\* update_epic_status: the store it leaves.
\* update_epic_status, were one finished child enough for the epic to be done.
update_epic_status_any_done(store, epic_id) ==
    IF epic_id \notin DOMAIN store THEN store
    ELSE LET children == {c \in DOMAIN store : store[c].parent_ticket = epic_id}
         IN  IF children = {} THEN store
             ELSE IF \E c \in children : store[c].status = "done"
                  THEN SetCompleted(store, epic_id, "done")
             ELSE IF \E c \in children :
                       store[c].status \in {"in_progress", "in_review", "testing"}
                  THEN SetStatus(store, epic_id, "in_progress")
             ELSE store

\* orchestrate.py update_epic_status
update_epic_status(store, epic_id) ==
    IF epic_id \notin DOMAIN store THEN store
    ELSE LET children == {c \in DOMAIN store : store[c].parent_ticket = epic_id}
             all_done == \A c \in children : store[c].status = "done"
             any_in_progress == \E c \in children :
                 store[c].status \in {"in_progress", "in_review", "testing"}
         IN  IF children = {} THEN store
             ELSE IF all_done THEN SetCompleted(store, epic_id, "done")
             ELSE IF any_in_progress THEN SetStatus(store, epic_id, "in_progress")
             ELSE store

\* The ids of the tickets of a list that have one of the statuses.
IdsWithStatus(tks, sts) ==
    LET hit == SelectSeq(tks, LAMBDA t : t.status \in sts)
    IN  [k \in 1..Len(hit) |-> hit[k].id]

\* The project the lifecycle is run on: an epic and its sub-ticket (cmd_plan
\* leaves epics in backlog and sets the other tickets to todo).
Project ==
    [T1 |-> [id |-> "T1", status |-> "backlog", type |-> "epic", priority |-> "high",
             dependencies |-> {}, parent_ticket |-> "",
             completed_at |-> FALSE, review_notes |-> ""],
     T2 |-> [id |-> "T2", status |-> "todo", type |-> "task", priority |-> "high",
             dependencies |-> {}, parent_ticket |-> "T1",
             completed_at |-> FALSE, review_notes |-> ""]]

LifeInit ==
    /\ tickets = Project
    /\ listed = <<>>
    /\ candidates = <<>>
    /\ been_in_progress = {}
    /\ OrchIdle

\* ---- ticket.py, run while no orchestrating command is running (the record
\* store is not locked, and the commands are not meant to run side by side)
\* ticket.py update --status s
cmd_update(t, s) ==
    /\ orch = "none"
    /\ tickets' = SetStatus(tickets, t, s)
    /\ been_in_progress' = Visited(been_in_progress, s, t)
    /\ UNCHANGED <<orchVars, delegVars, nonTkVars>>

\* ticket.py close
cmd_close(t) ==
    /\ orch = "none"
    /\ tickets' = SetCompleted(tickets, t, "done")
    /\ UNCHANGED <<been_in_progress, orchVars, delegVars, nonTkVars>>

\* ticket.py blocked
cmd_blocked(t) ==
    /\ orch = "none"
    /\ tickets' = SetBlocked(tickets, t, "BLOCKED")
    /\ UNCHANGED <<been_in_progress, orchVars, delegVars, nonTkVars>>

\* ---- delegate.py, without a team
\* delegate.py run from the command line.
CliDelegate(t) ==
    /\ orch = "none"
    /\ dpc = "none"
    /\ dpc' = "start"
    /\ dticket' = t
    /\ dreport' = ""
    /\ orch' = "delegate"
    /\ UNCHANGED <<spc, iteration, cur, rqueue, tkVars, nonTkVars>>

\* cmd_delegate: the ticket is saved as in_progress.
DelegateAssign ==
    /\ dpc = "start"
    /\ LET s == assign_status(tickets[dticket].status)
       IN  /\ tickets' = SetStatus(tickets, dticket, s)
           /\ been_in_progress' = Visited(been_in_progress, s, dticket)
    /\ dpc' = "exec"
    /\ UNCHANGED <<dticket, dreport, orchVars, nonTkVars>>

\* cmd_delegate: delegate_to_agent raises (timeout or non-zero exit).
DelegateExecFails ==
    /\ dpc = "exec"
    /\ tickets' = SetBlocked(tickets, dticket, "AGENT FAILURE")
    /\ dpc' = "exit"
    /\ UNCHANGED <<been_in_progress, dticket, dreport, orchVars, nonTkVars>>

\* cmd_delegate: the agent's output is parsed and the ticket saved.
DelegateExecReports(agent_status) ==
    /\ dpc = "exec"
    /\ tickets' = SetStatus(tickets, dticket, report_status(agent_status))
    /\ dpc' = "exit"
    /\ dreport' = agent_status
    /\ UNCHANGED <<been_in_progress, dticket, orchVars, nonTkVars>>

\* run_delegate: subprocess.run gives up after timeout + 60 s and kills the child.
DelegateKilled ==
    /\ dpc \in {"start", "exec"}
    /\ dpc' = "killed"
    /\ UNCHANGED <<dticket, dreport, orchVars, tkVars, nonTkVars>>

\* delegate.py run from the command line has ended.
CliDelegateEnds ==
    /\ orch = "delegate"
    /\ dpc \in {"exit", "killed"}
    /\ dpc' = "none"
    /\ dticket' = ""
    /\ dreport' = ""
    /\ orch' = "none"
    /\ UNCHANGED <<spc, iteration, cur, rqueue, tkVars, nonTkVars>>

\* ---- orchestrate.py sprint
SprintStart ==
    /\ orch = "none"
    /\ orch' = "sprint"
    /\ spc' = "loop"
    /\ iteration' = 0
    /\ UNCHANGED <<cur, rqueue, delegVars, tkVars, nonTkVars>>

\* while iteration < max_iterations: the bound is reached.
SprintExhausted ==
    /\ orch = "sprint" /\ spc = "loop"
    /\ iteration >= max_iterations
    /\ orch' = "none"
    /\ spc' = "ended"
    /\ UNCHANGED <<iteration, cur, rqueue, delegVars, tkVars, nonTkVars>>

AtLoopHead == orch = "sprint" /\ spc = "loop" /\ iteration < max_iterations

AllDone(tks) ==
    LET non_epic == SelectSeq(tks, LAMBDA t : t.type # "epic")
    IN  non_epic # <<>> /\ \A k \in 1..Len(non_epic) : non_epic[k].status = "done"

\* "Check if all done": break.
SprintAllDone ==
    /\ AtLoopHead
    /\ AllDone(all_tickets(tickets))
    /\ iteration' = iteration + 1
    /\ orch' = "none"
    /\ spc' = "ended"
    /\ UNCHANGED <<cur, rqueue, delegVars, tkVars, nonTkVars>>

NoCandidates ==
    /\ AtLoopHead
    /\ ~AllDone(all_tickets(tickets))
    /\ get_actionable_tickets(all_tickets(tickets)) = <<>>

\* No candidates, tickets in review: review_tickets[:3] are reviewed.
SprintReviewBatch ==
    /\ NoCandidates
    /\ LET review_tickets == IdsWithStatus(all_tickets(tickets), {"in_review"})
       IN  /\ review_tickets # <<>>
           /\ rqueue' = SubSeq(review_tickets, 1, IF Len(review_tickets) < 3
                                                  THEN Len(review_tickets) ELSE 3)
    /\ iteration' = iteration + 1
    /\ spc' = "reviewing"
    /\ UNCHANGED <<orch, cur, delegVars, tkVars, nonTkVars>>

\* A broken stuck check that goes round the loop again.
SprintStuck_continues ==
    /\ NoCandidates
    /\ IdsWithStatus(all_tickets(tickets), {"in_review"}) = <<>>
    /\ IdsWithStatus(all_tickets(tickets), {"blocked"}) # <<>>
    /\ IdsWithStatus(all_tickets(tickets), {"in_progress"}) = <<>>
    /\ iteration' = iteration + 1
    /\ UNCHANGED <<orch, spc, cur, rqueue, delegVars, tkVars, nonTkVars>>

\* No candidates, nothing in review, blocked tickets and none in progress: break.
SprintStuck ==
    /\ NoCandidates
    /\ IdsWithStatus(all_tickets(tickets), {"in_review"}) = <<>>
    /\ IdsWithStatus(all_tickets(tickets), {"blocked"}) # <<>>
    /\ IdsWithStatus(all_tickets(tickets), {"in_progress"}) = <<>>
    /\ iteration' = iteration + 1
    /\ orch' = "none"
    /\ spc' = "ended"
    /\ UNCHANGED <<cur, rqueue, delegVars, tkVars, nonTkVars>>

\* No candidates, nothing in review, in progress or blocked: break.
SprintNothingLeft ==
    /\ NoCandidates
    /\ IdsWithStatus(all_tickets(tickets), {"in_review"}) = <<>>
    /\ IdsWithStatus(all_tickets(tickets), {"blocked"}) = <<>>
    /\ IdsWithStatus(all_tickets(tickets), {"in_progress"}) = <<>>
    /\ iteration' = iteration + 1
    /\ orch' = "none"
    /\ spc' = "ended"
    /\ UNCHANGED <<cur, rqueue, delegVars, tkVars, nonTkVars>>

\* A broken wait that ends the run while tickets are in progress.
SprintWait_breaks ==
    /\ NoCandidates
    /\ IdsWithStatus(all_tickets(tickets), {"in_review"}) = <<>>
    /\ IdsWithStatus(all_tickets(tickets), {"in_progress"}) # <<>>
    /\ iteration' = iteration + 1
    /\ orch' = "none"
    /\ spc' = "ended"
    /\ UNCHANGED <<cur, rqueue, delegVars, tkVars, nonTkVars>>

\* No candidates, nothing in review, some ticket in progress: continue.
SprintWait ==
    /\ NoCandidates
    /\ IdsWithStatus(all_tickets(tickets), {"in_review"}) = <<>>
    /\ IdsWithStatus(all_tickets(tickets), {"in_progress"}) # <<>>
    /\ iteration' = iteration + 1
    /\ UNCHANGED <<orch, spc, cur, rqueue, delegVars, tkVars, nonTkVars>>

\* The top candidate is delegated to a single agent: run_delegate is called.
SprintDelegate ==
    /\ AtLoopHead
    /\ ~AllDone(all_tickets(tickets))
    /\ get_actionable_tickets(all_tickets(tickets)) # <<>>
    /\ dpc = "none"
    /\ iteration' = iteration + 1
    /\ cur' = get_actionable_tickets(all_tickets(tickets))[1].id
    /\ dticket' = get_actionable_tickets(all_tickets(tickets))[1].id
    /\ dreport' = ""
    /\ dpc' = "start"
    /\ spc' = "delegating"
    /\ UNCHANGED <<orch, rqueue, tkVars, nonTkVars>>

\* run_delegate returned.
SprintDelegateReturns ==
    /\ orch = "sprint" /\ spc = "delegating"
    /\ dpc = "exit"
    /\ dpc' = "none"
    /\ dticket' = ""
    /\ dreport' = ""
    /\ spc' = "post"
    /\ UNCHANGED <<orch, iteration, cur, rqueue, tkVars, nonTkVars>>

\* except subprocess.TimeoutExpired: the ticket is saved as blocked.
SprintDelegateTimedOut ==
    /\ orch = "sprint" /\ spc = "delegating"
    /\ dpc = "killed"
    /\ tickets' = SetBlocked(tickets, cur, "TIMEOUT")
    /\ dpc' = "none"
    /\ dticket' = ""
    /\ dreport' = ""
    /\ spc' = "post"
    /\ UNCHANGED <<been_in_progress, orch, iteration, cur, rqueue, nonTkVars>>

\* A broken approval that approves whatever status it finds.
approve_any(old) == "done"

\* "Auto-approve": a ticket found in_review is saved as done.
approve(old) == IF old = "in_review" THEN "done" ELSE old

\* The ticket as the approval leaves it: done, with completed_at, when it was
\* found in_review; not written otherwise.
Approved(store, t) ==
    IF approve(store[t].status) # store[t].status
    THEN SetCompleted(store, t, approve(store[t].status))
    ELSE store

\* The ticket is reloaded and approved when it ended up in_review.
SprintApprove ==
    /\ orch = "sprint" /\ spc = "post"
    /\ tickets' = Approved(tickets, cur)
    /\ spc' = "epic"
    /\ UNCHANGED <<been_in_progress, orch, iteration, cur, rqueue, delegVars, nonTkVars>>

\* "Update parent epic if applicable", and the loop goes round.
SprintUpdateEpic ==
    /\ orch = "sprint" /\ spc = "epic"
    /\ LET parent == tickets[cur].parent_ticket
           after == IF parent # "" THEN update_epic_status(tickets, parent) ELSE tickets
       IN  /\ tickets' = after
           /\ been_in_progress' =
                 IF parent \in DOMAIN after /\ after[parent].status = "in_progress"
                    /\ tickets[parent].status # "in_progress"
                 THEN been_in_progress \cup {parent} ELSE been_in_progress
    /\ spc' = "loop"
    /\ cur' = ""
    /\ UNCHANGED <<orch, iteration, rqueue, delegVars, nonTkVars>>

\* ---- reviews: cmd_review, and the review batch of cmd_sprint
\* orchestrate.py review, with tickets in review.
ReviewStart ==
    /\ orch = "none"
    /\ IdsWithStatus(all_tickets(tickets), {"in_review"}) # <<>>
    /\ rqueue' = IdsWithStatus(all_tickets(tickets), {"in_review"})
    /\ orch' = "review"
    /\ spc' = "reviewing"
    /\ UNCHANGED <<iteration, cur, delegVars, tkVars, nonTkVars>>

\* run_delegate(root, id, agent="reviewer-morty") for the next ticket of the batch.
ReviewDelegate ==
    /\ orch \in {"sprint", "review"} /\ spc = "reviewing"
    /\ rqueue # <<>>
    /\ dpc = "none"
    /\ dpc' = "start"
    /\ dticket' = Head(rqueue)
    /\ dreport' = ""
    /\ spc' = "review_wait"
    /\ UNCHANGED <<orch, iteration, cur, rqueue, tkVars, nonTkVars>>

\* The reviewer delegation is over (returned or raised): the ticket is reloaded
\* and approved when it is still in_review; after the last one the sprint loop
\* goes round, and cmd_review returns.
ReviewJudge ==
    /\ orch \in {"sprint", "review"} /\ spc = "review_wait"
    /\ dpc \in {"exit", "killed"}
    /\ tickets' = Approved(tickets, Head(rqueue))
    /\ rqueue' = Tail(rqueue)
    /\ dpc' = "none"
    /\ dticket' = ""
    /\ dreport' = ""
    /\ spc' = IF Tail(rqueue) # <<>> THEN "reviewing"
              ELSE IF orch = "sprint" THEN "loop" ELSE "reviewed"
    /\ orch' = IF Tail(rqueue) = <<>> /\ orch = "review" THEN "none" ELSE orch
    /\ UNCHANGED <<been_in_progress, iteration, cur, nonTkVars>>

LifeNext ==
    \/ \E t \in DOMAIN tickets, s \in Statuses : cmd_update(t, s)
    \/ \E t \in DOMAIN tickets : cmd_close(t)
    \/ \E t \in DOMAIN tickets : cmd_blocked(t)
    \/ \E t \in DOMAIN tickets : CliDelegate(t)
    \/ DelegateAssign
    \/ DelegateExecFails
    \/ \E a \in ReportStatuses : DelegateExecReports(a)
    \/ DelegateKilled
    \/ CliDelegateEnds
    \/ SprintStart
    \/ SprintExhausted
    \/ SprintAllDone
    \/ SprintReviewBatch
    \/ SprintStuck
    \/ SprintNothingLeft
    \/ SprintWait
    \/ SprintDelegate
    \/ SprintDelegateReturns
    \/ SprintDelegateTimedOut
    \/ SprintApprove
    \/ SprintUpdateEpic
    \/ ReviewStart
    \/ ReviewDelegate
    \/ ReviewJudge

\* ============================================================ team runs
\* The roles of a team in ascending name order (the fullstack-team roles).
RoleOrder == <<"architect-morty", "backend-morty", "frontend-morty">>
Modes == {"sequential", "parallel", "mixed"}
\* The ticket the team works on.
TeamTicket == "T2"

\* create_team_session: the team record as spawn_team returns it.
NewTeam(mode, lead, roles) ==
    [status |-> "pending", members |-> [r \in roles |-> "pending"],
     mode |-> mode, lead |-> lead]

Members == DOMAIN team.members

\* The teams run: three members led by any of them in sequential and mixed mode,
\* two members (as in devops-team) in parallel mode.
TeamShapes ==
    {NewTeam(mode, lead, Roles) : mode \in {"sequential", "mixed"}, lead \in Roles}
    \cup {NewTeam("parallel", sh[1], sh[2]) :
            sh \in {x \in Roles \X SUBSET Roles : Cardinality(x[2]) = 2 /\ x[1] \in x[2]}}

TeamInit ==
    /\ team \in TeamShapes
    /\ tpc = "idle"
    /\ seq_i = 0
    /\ results = [r \in Roles |-> "none"]
    /\ mpc = [r \in Roles |-> "idle"]
    /\ mlocal = [r \in Roles |-> NoTeam]
    /\ mout = [r \in Roles |-> NoReport]

\* run_team_sprint, sequential: sorted(members, key=(0 if lead else 1, role)).
\* The members sorted by role name alone.
ordered_members_by_name(tm) ==
    SelectSeq(RoleOrder, LAMBDA r : r \in DOMAIN tm.members)

ordered_members(tm) ==
    SelectSeq(RoleOrder, LAMBDA r : r \in DOMAIN tm.members /\ r = tm.lead)
        \o SelectSeq(RoleOrder, LAMBDA r : r \in DOMAIN tm.members /\ r # tm.lead)

\* delegate_team_member: the result status for a subprocess that exited (whatever
\* it did) or that was killed when subprocess.run timed out.
member_result(pcv, out) ==
    IF pcv = "killed" THEN "timeout" ELSE "completed"

\* A broken check that forgets the blocked members.
delegate_team_status_no_blocked(tm) ==
    IF \A r \in DOMAIN tm.members : tm.members[r] = "completed" THEN "completed"
    ELSE tm.status

\* cmd_delegate: "Check if all members completed", on the record it loaded.
delegate_team_status(tm) ==
    IF \A r \in DOMAIN tm.members : tm.members[r] = "completed" THEN "completed"
    ELSE IF \E r \in DOMAIN tm.members : tm.members[r] = "blocked" THEN "blocked"
    ELSE tm.status

Running(m) == mpc[m] \notin {"idle", "exit", "killed", "returned"}
Over(m) == mpc[m] \in {"exit", "killed"}

\* ---- delegate.py with --team-id, one subprocess per member
\* The ticket is saved as in_progress.
MemberAssign(m) ==
    /\ mpc[m] = "start"
    /\ LET st == assign_status(tickets[TeamTicket].status)
       IN  /\ tickets' = SetStatus(tickets, TeamTicket, st)
           /\ been_in_progress' = Visited(been_in_progress, st, TeamTicket)
    /\ mpc' = [mpc EXCEPT ![m] = "load_working"]
    /\ UNCHANGED <<team, coordVars, mlocal, mout, nonTeamVars>>

\* team = load_json(team_fp), before the member is marked working.
MemberLoadWorking(m) ==
    /\ mpc[m] = "load_working"
    /\ mlocal' = [mlocal EXCEPT ![m] = team]
    /\ mpc' = [mpc EXCEPT ![m] = "save_working"]
    /\ UNCHANGED <<team, coordVars, mout, tkVars, nonTeamVars>>

\* The member is marked working, a pending team active, and the record saved.
MemberSaveWorking(m) ==
    /\ mpc[m] = "save_working"
    /\ team' = [mlocal[m] EXCEPT !.members[m] = "working",
                                 !.status = IF @ = "pending" THEN "active" ELSE @]
    /\ mlocal' = [mlocal EXCEPT ![m] = NoTeam]
    /\ mpc' = [mpc EXCEPT ![m] = "exec"]
    /\ UNCHANGED <<coordVars, mout, tkVars, nonTeamVars>>

\* The outputs a member's agent can give: <<report status, whether its team section
\* lists something under "Blocked on">>.
TeamReports == {<<"completed", FALSE>>, <<"completed", TRUE>>, <<"blocked", TRUE>>}

\* delegate_to_agent raises (timeout or non-zero exit); except RuntimeError: the
\* ticket is saved as blocked.
MemberExecFails(m) ==
    /\ mpc[m] = "exec"
    /\ mout' = [mout EXCEPT ![m] = [kind |-> "fail", status |-> "", blocked_on |-> FALSE]]
    /\ tickets' = SetBlocked(tickets, TeamTicket, "AGENT FAILURE")
    /\ mpc' = [mpc EXCEPT ![m] = "load_failed"]
    /\ UNCHANGED <<been_in_progress, team, coordVars, mlocal, nonTeamVars>>

\* delegate_to_agent returns the agent's output, it is parsed, and
\* team = load_json(team_fp).
MemberExecReports(m, agent_status, blocked_on) ==
    /\ mpc[m] = "exec"
    /\ mout' = [mout EXCEPT ![m] = [kind |-> "report", status |-> agent_status,
                                    blocked_on |-> blocked_on]]
    /\ mlocal' = [mlocal EXCEPT ![m] = team]
    /\ mpc' = [mpc EXCEPT ![m] = "save_done"]
    /\ UNCHANGED <<team, coordVars, tkVars, nonTeamVars>>

\* except RuntimeError: team = load_json(team_fp).
MemberLoadFailed(m) ==
    /\ mpc[m] = "load_failed"
    /\ mlocal' = [mlocal EXCEPT ![m] = team]
    /\ mpc' = [mpc EXCEPT ![m] = "save_failed"]
    /\ UNCHANGED <<team, coordVars, mout, tkVars, nonTeamVars>>

\* except RuntimeError: the member and the team are marked blocked and saved.
MemberSaveFailed(m) ==
    /\ mpc[m] = "save_failed"
    /\ team' = [mlocal[m] EXCEPT !.members[m] = "blocked", !.status = "blocked"]
    /\ mlocal' = [mlocal EXCEPT ![m] = NoTeam]
    /\ mpc' = [mpc EXCEPT ![m] = "exit"]
    /\ UNCHANGED <<coordVars, mout, tkVars, nonTeamVars>>

\* The member is marked blocked (something under "Blocked on") or completed, the
\* team status recomputed, and the record saved.
MemberSaveDone(m) ==
    /\ mpc[m] = "save_done"
    /\ LET marked == [mlocal[m] EXCEPT
                         !.members[m] = IF mout[m].blocked_on THEN "blocked" ELSE "completed"]
       IN  team' = [marked EXCEPT !.status = delegate_team_status(marked)]
    /\ mlocal' = [mlocal EXCEPT ![m] = NoTeam]
    /\ mpc' = [mpc EXCEPT ![m] = "done_ticket"]
    /\ UNCHANGED <<coordVars, mout, tkVars, nonTeamVars>>

\* "Update ticket": the ticket is saved with the status the report maps to.
MemberDoneTicket(m) ==
    /\ mpc[m] = "done_ticket"
    /\ tickets' = SetStatus(tickets, TeamTicket, report_status(mout[m].status))
    /\ mpc' = [mpc EXCEPT ![m] = "exit"]
    /\ UNCHANGED <<been_in_progress, team, coordVars, mlocal, mout, nonTeamVars>>

\* run_delegate: subprocess.run gives up after timeout + 60 s and kills the child.
MemberKilled(m) ==
    /\ Running(m)
    /\ mpc' = [mpc EXCEPT ![m] = "killed"]
    /\ mlocal' = [mlocal EXCEPT ![m] = NoTeam]
    /\ UNCHANGED <<team, coordVars, mout, tkVars, nonTeamVars>>

\* ---- orchestrate.py run_team_sprint
\* mode == "sequential": the loop over ordered_members begins.
SeqStart ==
    /\ tpc = "idle" /\ team.mode = "sequential"
    /\ tpc' = "seq"
    /\ seq_i' = 1
    /\ UNCHANGED <<team, results, memberVars, tkVars, nonTeamVars>>

\* delegate_team_member is called for the next member.
SeqInvoke ==
    /\ tpc = "seq"
    /\ mpc' = [mpc EXCEPT ![ordered_members(team)[seq_i]] = "start"]
    /\ tpc' = "seq_wait"
    /\ UNCHANGED <<team, seq_i, results, mlocal, mout, tkVars, nonTeamVars>>

\* The call returned "completed": the loop goes on, or ends after the last member.
SeqReturnCompleted ==
    /\ tpc = "seq_wait"
    /\ LET m == ordered_members(team)[seq_i]
       IN  /\ Over(m)
           /\ member_result(mpc[m], mout[m]) = "completed"
           /\ results' = [results EXCEPT ![m] = "completed"]
           /\ mpc' = [mpc EXCEPT ![m] = "returned"]
    /\ tpc' = IF seq_i = Len(ordered_members(team)) THEN "done" ELSE "seq"
    /\ seq_i' = IF seq_i = Len(ordered_members(team)) THEN seq_i ELSE seq_i + 1
    /\ UNCHANGED <<team, mlocal, mout, tkVars, nonTeamVars>>

\* The call returned another status: break.
SeqReturnFailed ==
    /\ tpc = "seq_wait"
    /\ LET m == ordered_members(team)[seq_i]
       IN  /\ Over(m)
           /\ member_result(mpc[m], mout[m]) # "completed"
           /\ results' = [results EXCEPT ![m] = member_result(mpc[m], mout[m])]
           /\ mpc' = [mpc EXCEPT ![m] = "returned"]
    /\ tpc' = "done"
    /\ UNCHANGED <<team, seq_i, mlocal, mout, tkVars, nonTeamVars>>

\* mode == "parallel": every member is submitted to the thread pool.
ParStart ==
    /\ tpc = "idle" /\ team.mode = "parallel"
    /\ mpc' = [r \in Roles |-> IF r \in Members THEN "start" ELSE mpc[r]]
    /\ tpc' = "par"
    /\ UNCHANGED <<team, seq_i, results, mlocal, mout, tkVars, nonTeamVars>>

\* as_completed: a finished member's result is stored.
Collect(m) ==
    /\ tpc \in {"par", "mixed_par"}
    /\ Over(m)
    /\ results' = [results EXCEPT ![m] = member_result(mpc[m], mout[m])]
    /\ mpc' = [mpc EXCEPT ![m] = "returned"]
    /\ UNCHANGED <<team, tpc, seq_i, mlocal, mout, tkVars, nonTeamVars>>

\* The pool left as soon as one submitted member's result is in.
Joined_first ==
    /\ tpc \in {"par", "mixed_par"}
    /\ \E r \in Members : mpc[r] = "returned"
    /\ tpc' = "done"
    /\ UNCHANGED <<team, seq_i, results, memberVars, tkVars, nonTeamVars>>

\* The pool is left once every submitted member's result is in: return results.
Joined ==
    /\ tpc \in {"par", "mixed_par"}
    /\ \A r \in Members : mpc[r] = "returned"
    /\ tpc' = "done"
    /\ UNCHANGED <<team, seq_i, results, memberVars, tkVars, nonTeamVars>>

\* A broken mixed mode that submits every member at once.
mixed_first_all(tm) == DOMAIN tm.members

\* Mixed mode: the members invoked first.
mixed_first(tm) == {tm.lead}

\* mixed mode: the lead is run first.
MixedStart ==
    /\ tpc = "idle" /\ team.mode = "mixed"
    /\ mpc' = [r \in Roles |-> IF r \in mixed_first(team) THEN "start" ELSE mpc[r]]
    /\ tpc' = "mixed_lead"
    /\ UNCHANGED <<team, seq_i, results, mlocal, mout, tkVars, nonTeamVars>>

\* The lead's call returned "completed": the other members are submitted.
MixedLeadCompleted ==
    /\ tpc = "mixed_lead"
    /\ Over(team.lead)
    /\ member_result(mpc[team.lead], mout[team.lead]) = "completed"
    /\ results' = [results EXCEPT ![team.lead] = "completed"]
    /\ mpc' = [r \in Roles |-> IF r = team.lead THEN "returned"
                               ELSE IF r \in Members /\ mpc[r] = "idle" THEN "start" ELSE mpc[r]]
    /\ tpc' = "mixed_par"
    /\ UNCHANGED <<team, seq_i, mlocal, mout, tkVars, nonTeamVars>>

\* The lead's call returned another status: return results.
MixedLeadFailed ==
    /\ tpc = "mixed_lead"
    /\ Over(team.lead)
    /\ member_result(mpc[team.lead], mout[team.lead]) # "completed"
    /\ results' = [results EXCEPT ![team.lead] =
                      member_result(mpc[team.lead], mout[team.lead])]
    /\ mpc' = [mpc EXCEPT ![team.lead] = "returned"]
    /\ tpc' = "done"
    /\ UNCHANGED <<team, seq_i, mlocal, mout, tkVars, nonTeamVars>>

TeamNext ==
    \/ \E m \in Members : MemberAssign(m)
    \/ \E m \in Members : MemberLoadWorking(m)
    \/ \E m \in Members : MemberSaveWorking(m)
    \/ \E m \in Members : MemberExecFails(m)
    \/ \E m \in Members, r \in TeamReports : MemberExecReports(m, r[1], r[2])
    \/ \E m \in Members : MemberLoadFailed(m)
    \/ \E m \in Members : MemberSaveFailed(m)
    \/ \E m \in Members : MemberSaveDone(m)
    \/ \E m \in Members : MemberDoneTicket(m)
    \/ \E m \in Members : MemberKilled(m)
    \/ SeqStart
    \/ SeqInvoke
    \/ SeqReturnCompleted
    \/ SeqReturnFailed
    \/ ParStart
    \/ \E m \in Members : Collect(m)
    \/ Joined
    \/ MixedStart
    \/ MixedLeadCompleted
    \/ MixedLeadFailed

\* ------------------------------------------------ team.py member updates
\* The statuses a member is given.
MemberStatuses == {"pending", "working", "completed", "blocked"}

\* update_member_status: "Update team status based on member statuses".
member_team_status(tm) ==
    IF \A r \in DOMAIN tm.members : tm.members[r] = "completed" THEN "completed"
    ELSE IF \E r \in DOMAIN tm.members : tm.members[r] = "blocked" THEN "blocked"
    ELSE IF \E r \in DOMAIN tm.members : tm.members[r] = "working" THEN "active"
    ELSE tm.status

\* update_member_status: the record it saves and returns.
update_member_status(tm, role, status) ==
    LET marked == [tm EXCEPT !.members[role] = status]
    IN  [marked EXCEPT !.status = member_team_status(marked)]

\* update_member_status(root, team_id, role, status) on a team that is kept by
\* hand through team.py instead of being run by run_team_sprint.
UpdateMemberStatus(role, status) ==
    /\ tpc \in {"idle", "manual"}
    /\ team' = update_member_status(team, role, status)
    /\ tpc' = "manual"
    /\ UNCHANGED <<seq_i, results, memberVars, tkVars, nonTeamVars>>

\* load_team(root, team_id): the lead reads the record of such a team and keeps
\* what it read.
LoadTeam ==
    /\ tpc = "manual"
    /\ mlocal' = [mlocal EXCEPT ![team.lead] = team]
    /\ UNCHANGED <<team, coordVars, mpc, mout, tkVars, nonTeamVars>>

TeamRecordNext ==
    \/ TeamNext
    \/ \E role \in Members, status \in MemberStatuses : UpdateMemberStatus(role, status)
    \/ LoadTeam

\* ---- update_epic_status on its own
\* An epic T1 and two tickets that are each its child or nobody's, in any statuses.
EpicInputs ==
    [T1 : [status : Statuses, type : {"epic"}, priority : {"high"},
           dependencies : {{}}, parent_ticket : {""},
           completed_at : {FALSE}, review_notes : {""}],
     T2 : [status : Statuses, type : {"task"}, priority : {"high"},
           dependencies : {{}}, parent_ticket : {"T1", ""},
           completed_at : {FALSE}, review_notes : {""}],
     T3 : [status : Statuses, type : {"task"}, priority : {"high"},
           dependencies : {{}}, parent_ticket : {"T1", ""},
           completed_at : {FALSE}, review_notes : {""}]]

EpicInit ==
    /\ tickets \in {WithIds(st) : st \in EpicInputs}
    /\ listed = <<>>
    /\ candidates = <<>>
    /\ been_in_progress = {}
    /\ OrchIdle

\* One call update_epic_status(root, "T1").
RecomputeEpic ==
    /\ spc = "off"
    /\ spc' = "recomputed"
    /\ tickets' = update_epic_status(tickets, "T1")
    /\ UNCHANGED <<been_in_progress, orch, iteration, cur, rqueue, delegVars, nonTkVars>>

\* ================================================ a sprint iteration, with a team
\* cmd_sprint with teams enabled has picked the ticket and found that it needs a
\* team: spawn_team is about to be called.
TeamSprintInit ==
    /\ tickets = Project
    /\ listed = <<>> /\ candidates = <<>> /\ been_in_progress = {}
    /\ orch = "sprint" /\ spc = "team_spawn" /\ iteration = 1 /\ cur = TeamTicket
    /\ rqueue = <<>>
    /\ dpc = "none" /\ dticket = "" /\ dreport = ""
    /\ team = NoTeam
    /\ tpc = "idle"
    /\ seq_i = 0
    /\ results = [r \in Roles |-> "none"]
    /\ mpc = [r \in Roles |-> "idle"]
    /\ mlocal = [r \in Roles |-> NoTeam]
    /\ mout = [r \in Roles |-> NoReport]
    /\ MsgInit
    /\ agent_output = NoOutput /\ parsed = NoParse

\* What neither the team run nor the fallback touches.
aside == <<cbVars, resVars, readyVars, msgVars, parseVars>>

\* spawn_team returns the team it created; run_team_sprint is entered.
SpawnTeam ==
    /\ orch = "sprint" /\ spc = "team_spawn"
    /\ team' \in TeamShapes
    /\ spc' = "team_run"
    /\ UNCHANGED <<orch, iteration, cur, rqueue, delegVars, coordVars, memberVars,
                   tkVars, aside>>

\* except Exception: "Falling back to solo delegation...", run_delegate(root,
\* ticket["id"], timeout=600).
Fallback ==
    /\ tpc' = "raised"
    /\ spc' = "fallback"
    /\ dpc' = "start"
    /\ dticket' = cur
    /\ dreport' = ""
    /\ UNCHANGED <<orch, iteration, cur, rqueue, team, seq_i, results, memberVars,
                   tkVars, aside>>

\* The handler, were run_team_sprint to go on behind it.
SprintTeamRaises_goes_on ==
    /\ orch = "sprint" /\ spc = "team_run"
    /\ tpc # "raised"
    /\ \A m \in Members : ~Running(m)
    /\ spc' = "fallback"
    /\ dpc' = "start"
    /\ dticket' = cur
    /\ dreport' = ""
    /\ UNCHANGED <<orch, iteration, cur, rqueue, team, coordVars, memberVars,
                   tkVars, aside>>

\* spawn_team raises: no team for the ticket is found after `team.py create`.
SpawnRaises ==
    /\ orch = "sprint" /\ spc = "team_spawn"
    /\ Fallback

\* Something between spawn_team's return and the end of the try block raises.
\* Every member that was submitted has returned by then: delegate_team_member
\* catches what a member raises, and leaving the thread pool's with-block waits
\* for the members that run.
SprintTeamRaises ==
    /\ orch = "sprint" /\ spc = "team_run"
    /\ tpc # "raised"
    /\ \A m \in Members : ~Running(m)
    /\ Fallback

\* run_team_sprint returned and the results were logged.
SprintTeamReturns ==
    /\ orch = "sprint" /\ spc = "team_run"
    /\ tpc = "done"
    /\ spc' = "post"
    /\ UNCHANGED <<orch, iteration, cur, rqueue, delegVars, teamVars, tkVars, aside>>

\* The fallback's run_delegate returned or raised; whatever it raised is
\* caught and printed.
FallbackReturns ==
    /\ orch = "sprint" /\ spc = "fallback"
    /\ dpc \in {"exit", "killed"}
    /\ dpc' = "none"
    /\ dticket' = ""
    /\ dreport' = ""
    /\ spc' = "post"
    /\ UNCHANGED <<orch, iteration, cur, rqueue, teamVars, tkVars, aside>>

TeamSprintNext ==
    \/ SpawnTeam
    \/ SpawnRaises
    \/ TeamNext
    \/ SprintTeamRaises
    \/ SprintTeamReturns
    \/ DelegateAssign
    \/ DelegateExecFails
    \/ \E a \in ReportStatuses : DelegateExecReports(a)
    \/ DelegateKilled
    \/ FallbackReturns
    \/ SprintApprove
    \/ SprintUpdateEpic

\* ========================================================= team messages
\* The messages a behaviour sends.
MaxMessages == 2
\* The message numbers a caller of mark_messages_read may name.
MsgIds == 1..MaxMessages
\* The roles that send, receive and read; "@*" addresses every member.
MsgRoles == {"architect-morty", "backend-morty"}
Broadcast == "@*"

\* next_message_id, were the number the count of the existing messages.
next_message_id_count(msgs) == Cardinality(DOMAIN msgs)

\* team.py next_message_id: len(glob("msg-*.json")) + 1, printed as msg-NNN.
next_message_id(msgs) == Cardinality(DOMAIN msgs) + 1

\* team.py send_message: the record is saved as <id>.json, over a file of that name.
send_message(msgs, from_role, to_role) ==
    LET msg_id == next_message_id(msgs)
        msg == [id |-> msg_id, from |-> from_role, to |-> to_role, read_by |-> <<>>]
    IN  [i \in DOMAIN msgs \cup {msg_id} |-> IF i = msg_id THEN msg ELSE msgs[i]]

\* sorted(msg_dir.glob("msg-*.json")): the files by name, which is by number
\* for the three-digit numbers the model reaches.
sorted_files(msgs) ==
    CHOOSE q \in [1..Cardinality(DOMAIN msgs) -> DOMAIN msgs] :
        \A i, j \in DOMAIN q : i < j => q[i] < q[j]

InList(x, list) == \E k \in DOMAIN list : list[k] = x

\* get_messages, were a role's own messages left out.
get_messages_inbox_only(msgs, for_role, unread_only) ==
    SelectSeq(sorted_files(msgs), LAMBDA i :
        /\ (for_role # "" => (msgs[i].to = Broadcast \/ msgs[i].to = for_role))
        /\ ~(unread_only /\ for_role # "" /\ InList(for_role, msgs[i].read_by)))

\* team.py get_messages; for_role "" stands for None. The list of the numbers
\* of the messages returned.
get_messages(msgs, for_role, unread_only) ==
    SelectSeq(sorted_files(msgs), LAMBDA i :
        /\ ~(for_role # "" /\ msgs[i].to # Broadcast /\ msgs[i].to # for_role
             /\ msgs[i].from # for_role)
        /\ ~(unread_only /\ for_role # "" /\ InList(for_role, msgs[i].read_by)))

\* mark_messages_read, were the role appended without looking.
mark_messages_read_appends(msgs, role, message_ids) ==
    [i \in DOMAIN msgs |->
        IF message_ids # {} /\ msgs[i].id \notin message_ids THEN msgs[i]
        ELSE [msgs[i] EXCEPT !.read_by = Append(@, role)]]

\* team.py mark_messages_read; message_ids {} stands for None and for the
\* empty list, which `if message_ids and ...` treats alike.
mark_messages_read(msgs, role, message_ids) ==
    [i \in DOMAIN msgs |->
        IF message_ids # {} /\ msgs[i].id \notin message_ids THEN msgs[i]
        ELSE IF ~InList(role, msgs[i].read_by)
             THEN [msgs[i] EXCEPT !.read_by = Append(@, role)]
             ELSE msgs[i]]

SendMessage(from_role, to_role) ==
    /\ Len(sent) < MaxMessages
    /\ messages' = send_message(messages, from_role, to_role)
    /\ sent' = Append(sent, next_message_id(messages))
    /\ msg_last' = [NoCall EXCEPT !.op = "send", !.role = from_role]
    /\ UNCHANGED <<mmsg, nonMsgVars>>

GetMessages(for_role, unread_only) ==
    /\ msg_last' = [NoCall EXCEPT !.op = "get", !.role = for_role,
                                  !.unread_only = unread_only,
                                  !.got = get_messages(messages, for_role, unread_only)]
    /\ UNCHANGED <<messages, sent, mmsg, nonMsgVars>>

MarkMessagesRead(role, message_ids) ==
    /\ messages' = mark_messages_read(messages, role, message_ids)
    /\ msg_last' = [NoCall EXCEPT !.op = "mark", !.role = role, !.ids = message_ids]
    /\ UNCHANGED <<sent, mmsg, nonMsgVars>>

MsgNext ==
    \/ \E f \in MsgRoles, t \in MsgRoles \cup {Broadcast} : SendMessage(f, t)
    \/ \E r \in MsgRoles \cup {""}, u \in BOOLEAN : GetMessages(r, u)
    \/ \E r \in MsgRoles, ids \in SUBSET MsgIds : MarkMessagesRead(r, ids)

\* ------------------------------------------ messages in a member's output
\* The messages one member's output may carry.
MaxOutMessages == 2

\* parsed["messages"] of a member: the recipients of the "@recipient: text" lines.
OutMessages ==
    UNION {[1..n -> MsgRoles \cup {Broadcast}] : n \in 0..MaxOutMessages}

\* The members' executors have returned, their outputs are parsed and no message
\* file exists yet.
OutInit ==
    /\ messages = <<>>
    /\ sent = <<>>
    /\ msg_last = NoCall
    /\ mmsg \in [MsgRoles -> [pc : {"parsed"}, to : OutMessages, msg_num : {0}]]

\* delegate.py process_team_output: `if parsed["messages"]:` and, when there are
\* some, msg_num = len(glob("msg-*.json")) + 1.
CountMessages(r) ==
    /\ mmsg[r].pc = "parsed"
    /\ mmsg' = [mmsg EXCEPT ![r] =
                  IF mmsg[r].to = <<>> THEN [@ EXCEPT !.pc = "done"]
                  ELSE [@ EXCEPT !.pc = "saving",
                                 !.msg_num = Cardinality(DOMAIN messages) + 1]]
    /\ UNCHANGED <<messages, sent, msg_last, nonMsgVars>>

\* One pass of the loop over parsed["messages"]: save_json of msg-<msg_num>.json,
\* over a file of that name, and msg_num += 1.
SaveMessage(r) ==
    /\ mmsg[r].pc = "saving"
    /\ LET n == mmsg[r].msg_num
           msg == [id |-> n, from |-> r, to |-> Head(mmsg[r].to), read_by |-> <<>>]
       IN  /\ messages' = [i \in DOMAIN messages \cup {n} |->
                               IF i = n THEN msg ELSE messages[i]]
           /\ sent' = Append(sent, n)
           /\ mmsg' = [mmsg EXCEPT ![r] =
                         [pc |-> IF Tail(@.to) = <<>> THEN "done" ELSE "saving",
                          to |-> Tail(@.to), msg_num |-> n + 1]]
    /\ msg_last' = [NoCall EXCEPT !.op = "save", !.role = r]
    /\ UNCHANGED nonMsgVars

\* A member reads its messages while the outputs are processed.
OutMarkRead(r) ==
    /\ messages # <<>>
    /\ MarkMessagesRead(r, {})

OutNext ==
    \/ \E r \in MsgRoles : CountMessages(r)
    \/ \E r \in MsgRoles : SaveMessage(r)
    \/ \E r \in MsgRoles : OutMarkRead(r)

\* ====================================================== the agent's report
\* delegate.py parse_agent_output: output[-500:]
tail_chars == 500
\* The runs of like characters an output is made of.
MaxRuns == 3

\* A text is a list of runs, each of n characters of one kind: "w" whitespace,
\* "t" anything else; neighbouring runs differ in kind.
Chars == {"t", "w"}
RunLengths == {1, tail_chars - 1, tail_chars, tail_chars + 1}
Texts ==
    UNION {{q \in [1..n -> [c : Chars, n : RunLengths]] :
               \A i \in 1..(n - 1) : q[i].c # q[i + 1].c} : n \in 0..MaxRuns}

\* output[-n:], the whole text when it is shorter.
RECURSIVE TailOf(_, _)
TailOf(q, n) ==
    IF q = <<>> \/ n = 0 THEN <<>>
    ELSE LET last == q[Len(q)]
         IN  IF last.n >= n THEN <<[c |-> last.c, n |-> n]>>
             ELSE TailOf(SubSeq(q, 1, Len(q) - 1), n - last.n) \o <<last>>

\* str.strip()
Strip(q) ==
    LET l == IF q # <<>> /\ q[1].c = "w" THEN Tail(q) ELSE q
    IN  IF l # <<>> /\ l[Len(l)].c = "w" THEN SubSeq(l, 1, Len(l) - 1) ELSE l

\* str.lower() on the status words the model uses.
Lower(word) == IF word = "BLOCKED" THEN "blocked" ELSE word
StatusWords == {"", "completed", "BLOCKED", "needs_review", "failed"}

\* What the executor can print: without a "### Samenvatting" / "### Summary"
\* section any text; with one, the word of its **Status** line ("" for none) and
\* the text of its description field.
Outputs ==
    [tagged : {FALSE}, status_word : {""}, description : {<<>>}, text : Texts]
    \cup [tagged : {TRUE}, status_word : StatusWords,
          description : {<<>>, <<[c |-> "t", n |-> 1]>>,
                         <<[c |-> "w", n |-> 1], [c |-> "t", n |-> 1]>>},
          text : {<<>>}]

\* parse_agent_output, were an output without a report section taken for blocked.
parse_agent_output_pessimistic(output) ==
    IF output.tagged
    THEN [status |-> IF output.status_word # "" THEN Lower(output.status_word)
                     ELSE "completed",
          description |-> Strip(output.description)]
    ELSE [status |-> "blocked", description |-> Strip(TailOf(output.text, tail_chars))]

\* delegate.py parse_agent_output (status and description)
parse_agent_output(output) ==
    IF output.tagged
    THEN [status |-> IF output.status_word # "" THEN Lower(output.status_word)
                     ELSE "completed",
          description |-> Strip(output.description)]
    ELSE [status |-> "completed", description |-> Strip(TailOf(output.text, tail_chars))]

\* cmd_delegate has set the ticket in_progress and the executor has returned
\* its output.
ParseInit ==
    /\ tickets = SetStatus(Project, "T2", "in_progress")
    /\ been_in_progress = {"T2"}
    /\ listed = <<>> /\ candidates = <<>>
    /\ orch = "none" /\ spc = "off" /\ iteration = 0 /\ cur = "" /\ rqueue = <<>>
    /\ dpc = "exec" /\ dticket = "T2" /\ dreport = ""
    /\ TeamIdle
    /\ MsgInit
    /\ agent_output \in Outputs
    /\ parsed = NoParse

\* cmd_delegate: parsed = parse_agent_output(output), and the ticket is saved
\* with the status the report gives it.
ParseReport ==
    /\ dpc = "exec"
    /\ agent_output # NoOutput
    /\ parsed' = parse_agent_output(agent_output)
    /\ tickets' = SetStatus(tickets, dticket, report_status(parsed'.status))
    /\ dreport' = parsed'.status
    /\ dpc' = "exit"
    /\ UNCHANGED <<agent_output, been_in_progress, dticket, orchVars, cbVars, resVars,
                   readyVars, teamVars, msgVars>>

\* ========================================================= specifications
TkIdle ==
    /\ tickets = <<>>
    /\ listed = <<>>
    /\ candidates = <<>>
    /\ been_in_progress = {}
    /\ OrchIdle

BreakerInit == CbInit /\ ResInit /\ TkIdle
ReserveInit == CbInit /\ ResInit /\ TkIdle
ReadySpecInit == CbInit /\ ResInit /\ ReadyInit

BreakerSpec == BreakerInit /\ [][CbNext]_vars
ReserveSpec == ReserveInit /\ [][ResNext]_vars
ReadySpec == ReadySpecInit /\ [][GetActionable]_vars

MessageInit == CbInit /\ ResInit /\ TkIdle
MessageSpec == MessageInit /\ [][MsgNext]_vars

\* ------------------------------------------------- a sprint run to its end
\* The projects a sprint is run on: the epic T1 and the tasks T2 (its
\* sub-ticket) and T3 in any status, T3 of high or critical priority, neither,
\* one or the other of the tasks depending on the other one.
SprintProjects ==
    {[T1 |-> Project["T1"],
      T2 |-> [Project["T2"] EXCEPT !.status = s2, !.dependencies = dep[1]],
      T3 |-> [id |-> "T3", status |-> s3, type |-> "task", priority |-> p3,
              dependencies |-> dep[2], parent_ticket |-> "",
              completed_at |-> FALSE, review_notes |-> ""]] :
        s2 \in Statuses, s3 \in Statuses, p3 \in {"high", "critical"},
        dep \in {<<{}, {}>>, <<{"T3"}, {}>>, <<{}, {"T2"}>>}}

\* cmd_sprint has entered its loop.
SprintRunInit ==
    /\ CbInit /\ ResInit
    /\ tickets \in SprintProjects
    /\ listed = <<>> /\ candidates = <<>> /\ been_in_progress = {}
    /\ orch = "sprint" /\ spc = "loop" /\ iteration = 0 /\ cur = "" /\ rqueue = <<>>
    /\ dpc = "none" /\ dticket = "" /\ dreport = ""
    /\ TeamIdle
    /\ MsgInit
    /\ agent_output = NoOutput /\ parsed = NoParse

\* The executor call returns a report of status completed.
ExecCompletes == DelegateExecReports("completed")

SprintRunNext ==
    \/ SprintExhausted
    \/ SprintAllDone
    \/ SprintReviewBatch
    \/ ReviewDelegate
    \/ ReviewJudge
    \/ SprintStuck
    \/ SprintNothingLeft
    \/ SprintWait
    \/ SprintDelegate
    \/ DelegateAssign
    \/ ExecCompletes
    \/ SprintDelegateReturns
    \/ SprintApprove
    \/ SprintUpdateEpic

\* The run is one sequential program whose executor calls all return: whenever
\* it has a next step it takes it.
SprintRunSpec == SprintRunInit /\ [][SprintRunNext]_vars /\ WF_vars(SprintRunNext)

TeamOutputInit ==
    /\ CbInit /\ ResInit
    /\ tickets = Project /\ listed = <<>> /\ candidates = <<>> /\ been_in_progress = {}
    /\ orch = "none" /\ spc = "off" /\ iteration = 0 /\ cur = "" /\ rqueue = <<>>
    /\ dpc = "none" /\ dticket = "" /\ dreport = ""
    /\ TeamIdle
    /\ agent_output = NoOutput /\ parsed = NoParse
    /\ OutInit
TeamOutputSpec == TeamOutputInit /\ [][OutNext]_vars

TeamSprintSpecInit == CbInit /\ ResInit /\ TeamSprintInit
TeamSprintSpec == TeamSprintSpecInit /\ [][TeamSprintNext]_vars

ParseSpecInit == CbInit /\ ResInit /\ ParseInit
ParseSpec == ParseSpecInit /\ [][ParseReport]_vars

EpicSpecInit == CbInit /\ ResInit /\ EpicInit
EpicSpec == EpicSpecInit /\ [][RecomputeEpic]_vars

\* One team run on a freshly spawned team, the ticket being ready.
TeamSpecInit ==
    /\ CbInit /\ ResInit
    /\ tickets = Project /\ listed = <<>> /\ candidates = <<>> /\ been_in_progress = {}
    /\ orch = "none" /\ spc = "off" /\ iteration = 0 /\ cur = "" /\ rqueue = <<>>
    /\ dpc = "none" /\ dticket = "" /\ dreport = ""
    /\ MsgInit
    /\ agent_output = NoOutput /\ parsed = NoParse
    /\ TeamInit
TeamSpec == TeamSpecInit /\ [][TeamNext]_vars

\* A freshly spawned team that is either run or kept by hand.
TeamRecordInit == TeamSpecInit
TeamRecordSpec == TeamRecordInit /\ [][TeamRecordNext]_vars

\* The ticket lifecycle: sprint runs, reviews, delegations and the ticket CLI.
Init == CbInit /\ ResInit /\ LifeInit
Next == LifeNext
Spec == Init /\ [][Next]_vars

\* ================================================================= claims
\* C1: every ticket get_actionable_tickets returns is one of the tickets it
\* listed, has status todo or backlog, is not an epic, and each of its
\* dependencies names a listed ticket whose status is done, in_review or
\* testing (a dependency that names no ticket is unmet).
C1_ReadyTicketsAreReady ==
    \A k \in 1..Len(candidates) :
        LET t == candidates[k]
        IN  /\ \E j \in 1..Len(listed) : listed[j] = t
            /\ t.status \in {"todo", "backlog"}
            /\ t.type # "epic"
            /\ \A d \in t.dependencies :
                   \E j \in 1..Len(listed) :
                       /\ listed[j].id = d
                       /\ listed[j].status \in {"done", "in_review", "testing"}

\* Scenario 1: T1 (high, no dependencies) and T2 (critical, depends on T1) are
\* both todo, and the call returned T1 only.
C1_Witness ==
    /\ listed # <<>>
    /\ tickets["T1"].status = "todo" /\ tickets["T1"].priority = "high"
    /\ tickets["T1"].dependencies = {} /\ tickets["T1"].type = "task"
    /\ tickets["T2"].status = "todo" /\ tickets["T2"].priority = "critical"
    /\ tickets["T2"].dependencies = {"T1"} /\ tickets["T2"].type = "task"
    /\ Len(candidates) = 1 /\ candidates[1].id = "T1"

\* The order backlog/todo, in_progress, in_review, done; -1 for a status outside it.
StatusRank(s) ==
    CASE s \in {"backlog", "todo"} -> 0
      [] s = "in_progress" -> 1
      [] s = "in_review" -> 2
      [] s = "done" -> 3
      [] OTHER -> -1

\* C2: no step moves a ticket's status backward in the order backlog/todo,
\* in_progress, in_review, done, except in_review to todo, and no step brings a
\* ticket to in_review, testing or done that has never been in_progress.
C2_ForwardOnly ==
    [][\A t \in DOMAIN tickets :
         LET a == tickets[t].status
             b == tickets'[t].status
         IN  /\ (StatusRank(a) >= 0 /\ StatusRank(b) >= 0 /\ StatusRank(b) < StatusRank(a))
                    => (a = "in_review" /\ b = "todo")
             /\ (a # b /\ b \in {"in_review", "testing", "done"})
                    => t \in been_in_progress]_vars

\* A member whose delegate.py run ended on its own (the coordinator may already
\* have taken its result).
Ended(m) == mpc[m] = "exit" \/ (mpc[m] = "returned" /\ results[m] = "completed")
FailedExec(m) == Ended(m) /\ mout[m].kind = "fail"
ReportedCompleted(m) ==
    Ended(m) /\ mout[m].kind = "report" /\ mout[m].status = "completed" /\ ~mout[m].blocked_on
Untouched(m) == mpc[m] = "idle" /\ team.members[m] = "pending"

\* time.time() - self.last_failure_time >= self.cooldown_seconds, for a set time.
CooldownElapsed ==
    last_failure_time # <<>> /\ (now - last_failure_time[1]) >= cooldown_seconds

\* C11: a call attempt made when the state is open and the cooldown has elapsed
\* since the last failure leaves the state half-open and is permitted (a
\* delivery is started).
C11_CooldownHalfOpens ==
    [][(/\ cb_state = OPEN /\ CooldownElapsed
        /\ cb_last'.op \in {"emit_sent", "emit_skipped"})
       => (cb_state' = HALF_OPEN /\ inflight' = inflight + 1)]_vars

\* The breaker was open, exactly the cooldown after the last failure a call was
\* made, and it was let through to half-open.
C11_Witness ==
    /\ cb_last.op = "emit_sent" /\ cb_last.from = OPEN
    /\ cb_state = HALF_OPEN
    /\ last_failure_time # <<>> /\ now - last_failure_time[1] = cooldown_seconds

\* C12: while the state is half-open (the trial's outcome is not recorded yet:
\* any recorded outcome leaves half-open) no further call is permitted.
C12_OneTrialCall ==
    [][cb_state = HALF_OPEN => inflight' <= inflight]_vars

\* C13 as stated: while the cooldown has not elapsed since the last failure, a
\* call attempt is rejected in state open, and also right after a delivery
\* finished (with success or failure) that found the breaker open.
C13_RejectedUntilCooldown ==
    ( /\ ~CooldownElapsed
      /\ \/ cb_state = OPEN
         \/ cb_last.op \in {"record_success", "record_failure"} /\ cb_last.from = OPEN )
    => ~can_execute(cb_state, last_failure_time, now)

\* C13: while the state is open and the cooldown has not elapsed since the last
\* failure no call is permitted; a delivery that fails while the breaker is open
\* leaves it open with the cooldown started again, and one that succeeds closes it.
C13_OpenRejectsUntilCooldown ==
    /\ [][(cb_state = OPEN /\ ~CooldownElapsed) => inflight' <= inflight]_vars
    /\ []((cb_last.op = "record_failure" /\ cb_last.from = OPEN)
            => (cb_state = OPEN /\ last_failure_time = <<now>>
                /\ ~can_execute(cb_state, last_failure_time, now)))
    /\ []((cb_last.op = "record_success" /\ cb_last.from = OPEN)
            => (cb_state = CLOSED /\ can_execute(cb_state, last_failure_time, now)))

\* A delivery started before the breaker opened failed while it was open, later
\* than the failure that opened it.
C13_Witness ==
    /\ cb_last.op = "record_failure" /\ cb_last.from = OPEN
    /\ cb_state = OPEN
    /\ failure_count = failure_threshold + 1
    /\ now > 1

\* C3: in a parallel run where exactly one member's executor call failed and
\* every other member reported completed, once the coordinator has joined all
\* members the team is blocked, the failed member is blocked and every other
\* member is completed.
C3_OneFailureBlocksTeam ==
    \A f \in Members :
        ( /\ team.mode = "parallel"
          /\ tpc = "done"
          /\ FailedExec(f)
          /\ \A m \in Members \ {f} : ReportedCompleted(m) )
        => /\ team.status = "blocked"
           /\ team.members[f] = "blocked"
           /\ \A m \in Members \ {f} : team.members[m] = "completed"

\* C4: in a sequential run, once a member's executor call has failed or its
\* report has status blocked, no later member in the order is invoked and every
\* later member is still pending.
C4_SequentialStops ==
    team.mode = "sequential" =>
        \A i \in 1..Len(ordered_members(team)) :
            LET m == ordered_members(team)[i]
            IN  (FailedExec(m) \/ (Ended(m) /\ mout[m].status = "blocked"))
                    => \A j \in (i + 1)..Len(ordered_members(team)) :
                            Untouched(ordered_members(team)[j])

\* C5: in a mixed run, once the lead's executor call has failed or the lead has
\* ended blocked, no other member is invoked and every other member is still
\* pending.
C5_LeadFailureSkipsOthers ==
    ( /\ team.mode = "mixed"
      /\ (FailedExec(team.lead) \/ (Ended(team.lead) /\ mout[team.lead].blocked_on)) )
    => \A m \in Members \ {team.lead} : Untouched(m)

\* C6: in a mixed run no other member's invocation has started while the lead's
\* call has not returned, and the step that starts one of the other members
\* starts all of them.
C6_LeadBeforeOthers ==
    /\ [](team.mode = "mixed" =>
            \A m \in Members \ {team.lead} :
                mpc[m] # "idle" => results[team.lead] # "none")
    /\ [][team.mode = "mixed" =>
            \A m \in Members \ {team.lead}, n \in Members \ {team.lead} :
                (mpc[m] = "idle" /\ mpc'[m] # "idle") => (mpc[n] = "idle" /\ mpc'[n] = "start")]_vars

\* Two members other than the lead are running at the same moment, after the
\* lead returned.
C6_Witness ==
    /\ team.mode = "mixed"
    /\ results[team.lead] = "completed"
    /\ \E m \in Members \ {team.lead}, n \in Members \ {team.lead} :
          m # n /\ mpc[m] = "exec" /\ mpc[n] = "exec"

\* C7: a reserve_files call that asks for a path another role holds reports
\* failure and leaves the whole reservation map as it was.
C7_ReserveAtomic ==
    [][(/\ res_last'.op = "reserve"
        /\ \E p \in res_last'.paths, o \in DOMAIN files_reserved :
               o # res_last'.role /\ p \in files_reserved[o])
       => (~res_last'.ok /\ files_reserved' = files_reserved)]_vars

\* Scenario 5 with a free path beside the taken one: the last call failed, one
\* of the paths it asked for is held by nobody, and its role holds nothing.
C7_Witness ==
    /\ res_last.op = "reserve" /\ ~res_last.ok
    /\ \E p \in res_last.paths : \A r \in DOMAIN files_reserved : p \notin files_reserved[r]
    /\ \E p \in res_last.paths : \E r \in DOMAIN files_reserved :
           r # res_last.role /\ p \in files_reserved[r]
    /\ Held(files_reserved, res_last.role) = {}

\* C8: no path is in the sets of two roles, and a path held by one role is not
\* in another role's set one step later (the holder has to release it first).
C8_NoSharedPath ==
    /\ [](\A r1 \in Roles, r2 \in Roles :
            r1 # r2 => Held(files_reserved, r1) \cap Held(files_reserved, r2) = {})
    /\ [][\A r1 \in Roles, r2 \in Roles :
            r1 # r2 => Held(files_reserved, r1) \cap Held(files_reserved', r2) = {}]_vars

\* Two roles hold paths, and the last call, a reservation of a held path by
\* another role, was refused.
C8_Witness ==
    /\ \E r1 \in Roles, r2 \in Roles :
           r1 # r2 /\ Held(files_reserved, r1) # {} /\ Held(files_reserved, r2) # {}
    /\ res_last.op = "reserve" /\ ~res_last.ok

\* C9: right after a failure that is at least the threshold-th since the last
\* success the state is open and the last-failure timestamp is set; after fewer
\* failures since the last success the state is closed.
C9_OpensAtThreshold ==
    /\ (cb_last.op = "record_failure" /\ streak >= failure_threshold)
           => (cb_state = OPEN /\ last_failure_time # <<>>)
    /\ streak < failure_threshold => cb_state = CLOSED

\* The third failure in a row was recorded in state closed.
C9_Witness ==
    /\ cb_last.op = "record_failure" /\ cb_last.from = CLOSED
    /\ streak = failure_threshold
    /\ cb_state = OPEN

\* C10: right after a success is recorded the failure counter is zero and the
\* state is closed, whatever the state was.
C10_SuccessCloses ==
    cb_last.op = "record_success" => (failure_count = 0 /\ cb_state = CLOSED)

\* A success was recorded while the breaker was open.
C10_Witness ==
    /\ cb_last.op = "record_success" /\ cb_last.from = OPEN
    /\ cb_state = CLOSED

AllAre(tm, st) == \A r \in DOMAIN tm.members : tm.members[r] = st
SomeIs(tm, st) == \E r \in DOMAIN tm.members : tm.members[r] = st

\* C14: two team records with the same member statuses have the same team
\* status: the record in the store and a record read from it earlier.
C14_StatusFunctionOfMembers ==
    \A m \in Roles :
        (mlocal[m] # NoTeam /\ mlocal[m].members = team.members)
            => mlocal[m].status = team.status

StatusByPriority(tm, old) ==
    IF AllAre(tm, "completed") THEN tm.status = "completed"
    ELSE IF SomeIs(tm, "blocked") THEN tm.status = "blocked"
    ELSE IF SomeIs(tm, "working") THEN tm.status = "active"
    ELSE tm.status = old

C16_TerminalWhenFinished ==
    ( /\ team.mode \in {"parallel", "mixed"}
      /\ tpc = "done"
      /\ \A m \in Members : mpc[m] # "idle" => Ended(m) )
    => /\ team.status = (IF AllAre(team, "completed") THEN "completed" ELSE "blocked")
       /\ ~SomeIs(team, "working")

NoneReady == get_actionable_tickets(all_tickets(tickets)) = <<>>
SomeWith(st) == \E t \in DOMAIN tickets : tickets[t].status = st
SomeNonEpicWith(st) ==
    \E t \in DOMAIN tickets : tickets[t].status = st /\ tickets[t].type # "epic"

\* C17: an iteration that finds no ready ticket, nothing in review, nothing in
\* progress and some blocked ticket ends the run in that iteration: no agent is
\* started, no ticket is written, and the loop is left.
C17_StuckEndsRun ==
    [][( /\ AtLoopHead
         /\ NoneReady
         /\ ~SomeWith("in_review") /\ ~SomeWith("in_progress")
         /\ SomeWith("blocked") )
       => ( /\ orch' = "none" /\ spc' = "ended"
            /\ iteration' = iteration + 1
            /\ dpc' = "none" /\ rqueue' = rqueue
            /\ tickets' = tickets )]_vars

\* The run ended early with a blocked non-epic ticket and nothing ready, in
\* review or in progress.
C17_Witness ==
    /\ orch = "none" /\ spc = "ended"
    /\ iteration >= 1 /\ iteration < max_iterations
    /\ NoneReady
    /\ ~SomeWith("in_review") /\ ~SomeWith("in_progress")
    /\ SomeNonEpicWith("blocked")

\* C18 as stated: below the iteration bound, an iteration that finds a ticket
\* in progress, or a non-epic ticket ready or in review, does not end the run.
C18_NoEarlyEnd ==
    [][( /\ AtLoopHead
         /\ (SomeWith("in_progress") \/ ~NoneReady \/ SomeNonEpicWith("in_review")) )
       => spc' # "ended"]_vars

\* C18: below the iteration bound, an iteration does not end the run when a
\* non-epic ticket is ready or in review, or when a ticket is in progress and
\* not every non-epic ticket is done.
C18_NoEarlyEndUnlessAllDone ==
    [][( /\ AtLoopHead
         /\ \/ SomeWith("in_progress") /\ ~AllDone(all_tickets(tickets))
            \/ ~NoneReady
            \/ SomeNonEpicWith("in_review") )
       => (orch' = "sprint" /\ spc' # "ended" /\ iteration' = iteration + 1)]_vars

\* The loop went round at least once and is waiting: a non-epic ticket is in
\* progress and nothing is ready or in review.
C18_Witness ==
    /\ orch = "sprint" /\ spc = "loop"
    /\ iteration >= 1
    /\ SomeNonEpicWith("in_progress")
    /\ NoneReady /\ ~SomeWith("in_review")

\* The place of the ticket with this id in the list all_tickets returned.
ListedAt(id) == CHOOSE k \in 1..Len(listed) : listed[k].id = id

\* C19: the returned list is in the order critical, high, medium, low, and two
\* returned tickets of the same priority are in the order all_tickets listed them.
C19_SortedAndStable ==
    \A i \in 1..Len(candidates), j \in 1..Len(candidates) :
        i < j =>
            /\ PRIORITY_ORDER(candidates[i].priority) <= PRIORITY_ORDER(candidates[j].priority)
            /\ candidates[i].priority = candidates[j].priority
                   => ListedAt(candidates[i].id) < ListedAt(candidates[j].id)

\* Two ready tickets of the same priority were returned in input order.
C19_Witness ==
    /\ Len(candidates) = 2
    /\ candidates[1].priority = candidates[2].priority
    /\ candidates[1].id = "T1" /\ candidates[2].id = "T2"

\* C20: every listed ticket that is todo or backlog, not an epic, and whose
\* dependencies all name listed tickets in done, in_review or testing is in the
\* returned list.
C20_ReadyListComplete ==
    listed # <<>> =>
        \A k \in 1..Len(listed) :
            ( /\ listed[k].status \in {"todo", "backlog"}
              /\ listed[k].type # "epic"
              /\ \A d \in listed[k].dependencies :
                     \E j \in 1..Len(listed) :
                         /\ listed[j].id = d
                         /\ listed[j].status \in {"done", "in_review", "testing"} )
            => \E i \in 1..Len(candidates) : candidates[i] = listed[k]

\* Scenario 2 with the dependency under review: T2 depends on T1 alone, T1 is in
\* review, and the call returned T2.
C20_Witness ==
    /\ listed # <<>>
    /\ tickets["T1"].status = "in_review"
    /\ tickets["T2"].status = "todo" /\ tickets["T2"].dependencies = {"T1"}
    /\ tickets["T2"].type = "task"
    /\ Len(candidates) = 1 /\ candidates[1].id = "T2"

\* The step in which cmd_review, or the sprint loop's review branch, reloads the
\* ticket whose reviewer delegation is over.
ReviewReloads == spc = "review_wait" /\ rqueue' = Tail(rqueue) /\ rqueue # <<>>

\* C21: when the reviewer delegation is over, a ticket that is still in_review
\* is set to done with a completion timestamp, and a ticket whose status is
\* anything else is left exactly as the review left it (not set to done).
C21_UnchangedReviewApproves ==
    [][ReviewReloads =>
         LET t == Head(rqueue) IN
         /\ tickets[t].status = "in_review"
              => tickets'[t].status = "done" /\ tickets'[t].completed_at
         /\ tickets[t].status # "in_review" => tickets'[t] = tickets[t]
         /\ \A u \in DOMAIN tickets \ {t} : tickets'[u] = tickets[u]]_vars

\* cmd_review has returned and left the sub-ticket done with its completion
\* time.
C21_Witness ==
    /\ orch = "none" /\ spc = "reviewed"
    /\ tickets["T2"].status = "done" /\ tickets["T2"].completed_at
    /\ tickets["T1"].status # "done"

\* C22: when the reviewer of an in_review ticket has reported a status other
\* than completed, the review has rejected the ticket: once cmd_review (or the
\* sprint's review branch) has reloaded it, the ticket is todo, hence not done.
C22_RejectionReturnsToTodo ==
    [][(ReviewReloads /\ dpc = "exit" /\ dreport \notin {"", "completed"})
         => tickets'[Head(rqueue)].status = "todo"]_vars

\* The children of the epic T1 and what update_epic_status looks at.
EpicChildren == {c \in DOMAIN tickets : tickets[c].parent_ticket = "T1"}
ChildrenAllDone == \A c \in EpicChildren : tickets[c].status = "done"
ChildrenSomeActive ==
    \E c \in EpicChildren : tickets[c].status \in {"in_progress", "in_review", "testing"}

\* C23 as stated: after the recomputation the epic is done exactly when all its
\* children are done, and in_progress exactly when not all children are done
\* and some child is in_progress, in_review or testing.
C23_EpicIffChildren ==
    [][spc' = "recomputed" =>
         /\ tickets'["T1"].status = "done" <=> ChildrenAllDone
         /\ tickets'["T1"].status = "in_progress"
              <=> (~ChildrenAllDone /\ ChildrenSomeActive)]_vars

\* C23: recomputing an epic that has children sets it to done, with a
\* completion time, if all its children are done; otherwise to in_progress if
\* some child is in_progress, in_review or testing; otherwise, and for an epic
\* without children, the epic keeps the status it had. No other ticket changes.
C23_EpicFromChildren ==
    [][spc' = "recomputed" =>
         /\ tickets'["T1"].status =
              IF EpicChildren = {} THEN tickets["T1"].status
              ELSE IF ChildrenAllDone THEN "done"
              ELSE IF ChildrenSomeActive THEN "in_progress"
              ELSE tickets["T1"].status
         /\ (EpicChildren # {} /\ ChildrenAllDone) => tickets'["T1"].completed_at
         /\ \A c \in DOMAIN tickets \ {"T1"} : tickets'[c] = tickets[c]]_vars

\* The epic was recomputed to in_progress with one child done and the other in
\* review.
C23_Witness ==
    /\ spc = "recomputed"
    /\ tickets["T1"].status = "in_progress"
    /\ tickets["T2"].status = "done" /\ tickets["T2"].parent_ticket = "T1"
    /\ tickets["T3"].status = "in_review" /\ tickets["T3"].parent_ticket = "T1"

\* C28: every ticket whose status is blocked carries a non-empty reason in
\* review_notes, whichever operation moved it to blocked.
C28_BlockedHasReason ==
    \A t \in DOMAIN tickets : tickets[t].status = "blocked" => tickets[t].review_notes # ""

\* C27: once the executor call of some member for the team's ticket has failed,
\* no agent that has not been started yet is started for that ticket in the
\* same team run.
C27_NoInvocationAfterFailure ==
    [][(\E f \in Members : mout[f].kind = "fail")
         => \A m \in Members : mpc[m] = "idle" => mpc'[m] = "idle"]_vars

\* C24: the k-th message sent to the team got the number k, which is the count
\* of the messages that existed when it was sent plus one: the numbers are
\* pairwise distinct and strictly increasing in send order, and every message
\* sent has its own file.
C24_SequentialIds ==
    /\ \A k \in DOMAIN sent : sent[k] = k
    /\ \A j, k \in DOMAIN sent : j < k => sent[j] < sent[k]
    /\ DOMAIN messages = {sent[k] : k \in DOMAIN sent}
    /\ \A i \in DOMAIN messages : messages[i].id = i

\* Two messages have been sent.
C24_Witness == Len(sent) = 2 /\ msg_last.op = "send"

\* The messages get_messages has to return for a role.
ForRole(r) ==
    {i \in DOMAIN messages :
        messages[i].to = r \/ messages[i].to = Broadcast \/ messages[i].from = r}
Unread(r) == {i \in DOMAIN messages : \A k \in DOMAIN messages[i].read_by :
                                           messages[i].read_by[k] # r}

C26_MarkReadIdempotent ==
    /\ [][( /\ msg_last.op = "mark" /\ msg_last'.op = "mark"
            /\ msg_last'.role = msg_last.role /\ msg_last'.ids = msg_last.ids )
          => messages' = messages]_vars
    /\ [](\A i \in DOMAIN messages : \A j, k \in DOMAIN messages[i].read_by :
             j # k => messages[i].read_by[j] # messages[i].read_by[k])

\* Both roles have marked a message read.
C26_Witness ==
    /\ msg_last.op = "mark"
    /\ \E i \in DOMAIN messages : Len(messages[i].read_by) = 2

\* The text character by character.
RECURSIVE TextLen(_)
TextLen(q) == IF q = <<>> THEN 0 ELSE q[1].n + TextLen(Tail(q))
RECURSIVE CharAt(_, _)
CharAt(q, i) == IF i <= q[1].n THEN q[1].c ELSE CharAt(Tail(q), i - q[1].n)

\* The trailing tail_chars characters of the output: how many there are, and
\* the k-th of them.
WindowLen == IF TextLen(agent_output.text) < tail_chars
             THEN TextLen(agent_output.text) ELSE tail_chars
WindowStart == TextLen(agent_output.text) - WindowLen
WindowChar(from, k) == CharAt(agent_output.text, from + k)
Untagged == dpc = "exit" /\ ~agent_output.tagged

LeadingSpace(from, len) ==
    CHOOSE a \in 0..len :
        /\ a = len \/ WindowChar(from, a + 1) # "w"
        /\ \A j \in 1..a : WindowChar(from, j) = "w"

C29_RaiseFallsBackToSolo ==
    /\ [][(tpc' = "raised" /\ tpc # "raised")
            => ( /\ spc' = "fallback"
                 /\ dpc' = "start" /\ dticket' = cur /\ cur' = cur
                 /\ tickets' = tickets )]_vars
    /\ [][(spc \in {"fallback", "post", "epic", "loop"}) => mpc' = mpc]_vars
    /\ [](spc = "fallback" => dticket = cur /\ dpc # "none")

\* The team was abandoned after one member had run and before another was
\* invoked, and the solo delegation has left the ticket in_review.
C29_Witness ==
    /\ tpc = "raised" /\ spc = "post"
    /\ \E m \in Members : mpc[m] = "idle"
    /\ \E m \in Members : mpc[m] = "returned"
    /\ tickets[cur].status = "in_review"

\* C31: emit gives its caller the same result, None, whether it skipped the
\* event or started a delivery, and nothing a delivery does later, success or
\* failure, alters that or anything outside the breaker; a failed delivery
\* changes the breaker's counter, state and last-failure time only.
C31_DeliveryNeverReachesCaller ==
    /\ [](cb_last.op \in {"emit_sent", "emit_skipped"} => cb_last.ret = "None")
    /\ [][(cb_last'.op \in {"record_success", "record_failure"})
            => ( /\ cb_last'.ret = cb_last.ret
                 /\ now' = now
                 /\ UNCHANGED nonCbVars )]_vars
    /\ [][(cb_last'.op = "record_failure")
            => ( /\ failure_count' = failure_count + 1
                 /\ last_failure_time' = <<now>>
                 /\ cb_state' \in {cb_state, OPEN} )]_vars

\* A delivery has failed and opened the breaker after emit had returned None.
C31_Witness ==
    /\ cb_last.op = "record_failure" /\ cb_last.ret = "None"
    /\ cb_state = OPEN /\ cb_last.from = CLOSED

\* C38: the breaker is closed exactly when its failure counter is below the
\* threshold; when it is open or half-open the last-failure time is set, so an
\* open breaker whose cooldown has elapsed lets the next call through.
C38_ClosedIffBelowThreshold ==
    /\ cb_state = CLOSED <=> failure_count < failure_threshold
    /\ cb_state \in {OPEN, HALF_OPEN} => last_failure_time # <<>>
    /\ (cb_state = OPEN /\ now - last_failure_time[1] >= cooldown_seconds)
          => ( /\ can_execute(cb_state, last_failure_time, now)
               /\ can_execute_state(cb_state, last_failure_time, now) = HALF_OPEN )

\* The breaker is open with more failures than the threshold and its cooldown
\* has elapsed.
C38_Witness ==
    /\ cb_state = OPEN
    /\ failure_count > failure_threshold
    /\ now - last_failure_time[1] >= cooldown_seconds

\* C39: a failure recorded while the breaker is half-open leaves it open with
\* the last-failure time at that moment, so that no call is let through before
\* a whole cooldown has passed again; one failure is enough.
C39_HalfOpenFailureReopens ==
    [][(cb_state = HALF_OPEN /\ cb_last'.op = "record_failure")
         => ( /\ cb_state' = OPEN
              /\ last_failure_time' = <<now>>
              /\ \A t \in now..(now + cooldown_seconds - 1) :
                     ~can_execute(cb_state', last_failure_time', t) )]_vars

\* The trial call of a half-open breaker failed and the breaker is open again.
C39_Witness ==
    /\ cb_last.op = "record_failure" /\ cb_last.from = HALF_OPEN
    /\ cb_state = OPEN /\ last_failure_time = <<now>>

\* C32: cmd_delegate saves the ticket as in_progress when it assigns it, and
\* when it ends the ticket is in_review or blocked: blocked exactly when the
\* executor call failed or the report said blocked, in_review otherwise, in
\* particular for a report that said completed or needs_review.
C32_DelegationOutcome ==
    /\ [][(dpc = "start" /\ dpc' = "exec")
            => tickets'[dticket].status = "in_progress"]_vars
    /\ [][(dpc = "exec" /\ dpc' = "exit")
            => ( /\ tickets[dticket].status = "in_progress"
                 /\ tickets'[dticket].status \in {"in_review", "blocked"}
                 /\ tickets'[dticket].status = "blocked"
                       <=> (dreport' = "" \/ dreport' = "blocked")
                 /\ dreport' \in {"completed", "needs_review"}
                       => tickets'[dticket].status = "in_review" )]_vars

\* A delegation has ended on a report that said needs_review and left the
\* ticket in_review.
C32_Witness ==
    /\ dpc = "exit" /\ dreport = "needs_review"
    /\ tickets[dticket].status = "in_review"
    /\ dticket \in been_in_progress

\* C33: when a member's delegation saves the member's status after a
\* successful executor call, the member is blocked if the report's status is
\* blocked and completed if it is completed or needs_review.
C33_MemberFollowsReportStatus ==
    [][\A m \in Members :
          (mpc[m] = "save_done" /\ mpc'[m] = "done_ticket")
            => ( /\ mout[m].status = "blocked" => team'.members[m] = "blocked"
                 /\ mout[m].status \in {"completed", "needs_review"}
                       => team'.members[m] = "completed" )]_vars

\* C34: in a parallel run the coordinator returns only when every member's call
\* has finished and its result is stored, the result map then has one entry for
\* each member and none for any other role, the step that invokes one member
\* invokes them all, and a member's failure or timeout leaves every other
\* member's invocation as it is.
C34_ParallelWaitsForAll ==
    /\ [](team.mode = "parallel" /\ tpc = "done"
            => /\ \A m \in Members :
                     mpc[m] = "returned" /\ results[m] \in {"completed", "timeout", "error"}
               /\ \A r \in Roles \ Members : results[r] = "none")
    /\ [][(team.mode = "parallel")
            => \A m \in Members : \A n \in Members \ {m} :
                 /\ (mpc[m] = "idle" /\ mpc'[m] # "idle") => (mpc[n] = "idle" /\ mpc'[n] = "start")
                 /\ (mpc'[m] # mpc[m] /\ mpc'[m] \in {"killed", "load_failed"})
                        => mpc'[n] = mpc[n]]_vars

\* A parallel run has returned with one member timed out and another completed
\* after its own executor call had failed.
C34_Witness ==
    /\ team.mode = "parallel" /\ tpc = "done"
    /\ \E m \in Members, n \in Members :
          /\ results[m] = "timeout" /\ results[n] = "completed"
          /\ team.members[n] = "blocked"

\* Position of a role name in ascending order of role names.
NameRank(r) == CHOOSE i \in 1..Len(RoleOrder) : RoleOrder[i] = r

\* Member a is invoked before member b: the lead before everybody, the others
\* by ascending role name.
InvokedBefore(a, b) ==
    /\ a # b /\ b # team.lead
    /\ (a = team.lead \/ NameRank(a) < NameRank(b))

\* C35: in a sequential run at most one member is working at any moment, and
\* the step that invokes a member finds no other member working, every member
\* due before it (the lead, then ascending role names) already returned, and
\* every member due after it not yet invoked.
C35_SequentialOneAtATime ==
    /\ [](team.mode = "sequential" => Cardinality({m \in Members : Running(m)}) <= 1)
    /\ [][(team.mode = "sequential")
            => \A m \in Members :
                 (mpc[m] = "idle" /\ mpc'[m] # "idle")
                    => \A n \in Members \ {m} :
                         /\ ~Running(n)
                         /\ InvokedBefore(n, m) => mpc[n] = "returned"
                         /\ InvokedBefore(m, n) => mpc[n] = "idle"]_vars

\* A sequential run led by the last role in name order: the lead has returned,
\* the first role in name order is working and the one between them waits.
C35_Witness ==
    /\ team.mode = "sequential" /\ team.lead = "frontend-morty"
    /\ mpc["frontend-morty"] = "returned" /\ results["frontend-morty"] = "completed"
    /\ mpc["architect-morty"] = "exec"
    /\ mpc["backend-morty"] = "idle"

\* C36: a message file, once written, keeps its sender and recipient for good,
\* whatever the members whose outputs are processed at the same time write; only
\* its read-set changes.
C36_MessagesNeverReplaced ==
    [][\A i \in DOMAIN messages :
          /\ i \in DOMAIN messages'
          /\ messages'[i].id = messages[i].id
          /\ messages'[i].from = messages[i].from
          /\ messages'[i].to = messages[i].to]_vars

\* C37: when the sprint iteration reaches its approval step after a team run in
\* which some member's executor call failed or some member reported status
\* blocked, the ticket is blocked and the step does not set it done.
C37_DoneOnlyIfAllCompleted ==
    [][(/\ orch = "sprint" /\ spc = "post" /\ spc' = "epic"
        /\ tpc = "done"
        /\ \E m \in Members :
              FailedExec(m) \/ (Ended(m) /\ mout[m].status = "blocked"))
       => (tickets[cur].status = "blocked" /\ tickets'[cur].status # "done")]_vars

\* The non-epic tickets of the project.
NonEpic == {t \in DOMAIN tickets : tickets[t].type # "epic"}
\* Every non-epic ticket is planned and not yet started: backlog or todo.
AllPlanned == \A t \in NonEpic : tickets[t].status \in {"backlog", "todo"}
\* The run has ended with every non-epic ticket done.
EndedAllDone ==
    /\ spc = "ended" /\ orch = "none"
    /\ \A t \in NonEpic : tickets[t].status = "done"
\* A step that delegates a ticket finds all its dependencies done.
DelegatesAfterDependencies ==
    (spc = "loop" /\ spc' = "delegating")
        => \A d \in tickets[cur'].dependencies : tickets[d].status = "done"

StartedByRun ==
    \A t \in NonEpic : tickets[t].status \in {"backlog", "todo"} \/ t \in been_in_progress

====
